---- MODULE Spec2Model ----
(***************************************************************************)
(* Model of the force-feedback core of OutRun2006Tweaks-FFB:               *)
(*   src/src/hooks_dinputffb.cpp  (namespaces Telemetry and FFB, and the   *)
(*                                 DirectInputFFBHook class)               *)
(*   src/src/dllmain.cpp          (DllMain, Plugin_Init)                   *)
(*                                                                         *)
(* Numbers.  The C++ floats are modelled as fixed-point integers with      *)
(* four decimals (One == 10000 stands for 1.0f); oscillator phases are in  *)
(* units of 1e-5 rad so that the three per-tick increments are exact.      *)
(* DWORD values (GetTickCount, packetId) keep their 32-bit width: they are *)
(* pairs <<hi, lo>> of 16-bit halves with modular arithmetic.  int16_t     *)
(* conversions wrap modulo 2^16 as the MSVC build does.                    *)
(***************************************************************************)
EXTENDS Integers, Sequences, FiniteSets, TLC

VARIABLES
    proc,       \* process phase: "unloaded" | "running" | "detached"
    hook,       \* GamePlCar_Ctrl inline hook installed (DirectInputFFBHook::apply)
    settings,   \* namespace Settings (read by Plugin_Init from the INI)
    ffb,        \* statics of namespace FFB
    tel,        \* statics of namespace Telemetry and the shared record
    hw,         \* the SDL haptic subsystem and the device as the calls left it
    now,        \* GetTickCount(), a DWORD
    bootTick,   \* value of GetTickCount() when the process was loaded
    locals,     \* locals of the force stage of the last step, if it ran one
    op,         \* the entry point executed by the last step
    shape,      \* operands and result of the output-shaping stage taken alone
    scenario    \* the input script a scenario specification replays, and its position

vars == <<proc, hook, settings, ffb, tel, hw, now, bootTick, locals, op, shape, scenario>>

----------------------------------------------------------------------------
(* Bounds of the exploration *)

\* gameplay ticks processed by the force stage (FFB::updateCounter)
MaxTicks == 2
\* number of clock advances after the process was loaded
MaxClockSteps == 2
\* calls of Telemetry::Write (packetId) explored
MaxPackets == 3

----------------------------------------------------------------------------
(* Fixed-point arithmetic standing in for float *)

One == 10000

Abs(x) == IF x < 0 THEN -x ELSE x

\* division truncating toward zero, as C++ integer and float->int conversion do
TruncDiv(n, d) == IF n >= 0 THEN n \div d ELSE -((-n) \div d)

\* product of two fixed-point values
Mul(a, b) == TruncDiv(a * b, One)

Clamp(x, lo, hi) == IF x < lo THEN lo ELSE IF x > hi THEN hi ELSE x

Max(a, b) == IF a > b THEN a ELSE b

\* std::tanh sampled every 0.1 on [0, 4.0], linear in between
TanhTable ==
  << 0, 997, 1974, 2913, 3799, 4621, 5370, 6044, 6640, 7163, 7616, 8005, 8337,
     8617, 8854, 9051, 9217, 9354, 9468, 9562, 9640, 9705, 9757, 9801, 9837,
     9866, 9890, 9910, 9926, 9940, 9951, 9959, 9967, 9973, 9978, 9982, 9985,
     9988, 9990, 9992, 9993 >>

TanhPos(x) ==
  IF x >= 40000 THEN IF x >= 100000 THEN One
                     ELSE 9993 + ((x - 40000) * 7) \div 60000
  ELSE LET i == x \div 1000
           r == x % 1000
           a == TanhTable[i + 1]
           b == TanhTable[i + 2]
       IN a + ((b - a) * r) \div 1000

Tanh(x) == IF x >= 0 THEN TanhPos(x) ELSE -TanhPos(-x)

\* one cycle of the oscillators: the literal 6.2832f, in 1e-5 rad
TwoPi == 628320

\* std::sin sampled every 1/60 of a cycle (all three increments are multiples)
SinTable ==
  << 0, 1045, 2079, 3090, 4067, 5000, 5878, 6691, 7431, 8090, 8660, 9135, 9511,
     9781, 9945, 10000, 9945, 9781, 9511, 9135, 8660, 8090, 7431, 6691, 5878,
     5000, 4067, 3090, 2079, 1045, 0, -1045, -2079, -3090, -4067, -5000, -5878,
     -6691, -7431, -8090, -8660, -9135, -9511, -9781, -9945, -10000, -9945,
     -9781, -9511, -9135, -8660, -8090, -7431, -6691, -5878, -5000, -4067,
     -3090, -2079, -1045 >>

Sin(phase) == SinTable[((phase % TwoPi) \div 10472) + 1]

\* conversion of an int to int16_t (two's complement wrap)
ToInt16(x) == ((x + 32768) % 65536) - 32768

----------------------------------------------------------------------------
(* DWORD arithmetic: a value v is the pair <<v \div 2^16, v % 2^16>> *)

Half == 65536

DwZero == <<0, 0>>

\* a + d for a small non-negative int d, modulo 2^32
DwAdd(a, d) ==
  LET lo == a[2] + d
  IN << (a[1] + lo \div Half) % Half, lo % Half >>

\* a - b modulo 2^32
DwSub(a, b) ==
  LET lo == a[2] - b[2]
      borrow == IF lo < 0 THEN 1 ELSE 0
  IN << (a[1] - b[1] - borrow + Half) % Half, (lo + Half) % Half >>

\* a > n for a small non-negative int n
DwGt(a, n) == a[1] > 0 \/ a[2] > n

----------------------------------------------------------------------------
(* The world the entry points act on.  Every operation below is a function *)
(* from a world (and the environment's answers) to the world it leaves.    *)

World == [settings |-> settings, ffb |-> ffb, tel |-> tel, hw |-> hw, locals |-> locals]

\* hapticDevice: the null pointer and the handle SDL_OpenHaptic returns
NullDevice == 0

OpenedDevice == 1

\* one call into the haptic subsystem, as issued
HapticCall(w, fn, id, level) ==
  [fn |-> fn, dev |-> w.ffb.hapticDevice, live |-> w.hw.open, id |-> id, level |-> level]

Issue(w, fn, id, level) ==
  [w EXCEPT !.hw.calls = Append(@, HapticCall(w, fn, id, level))]

\* SDL_UpdateHapticEffect on the constant-force effect; the device may reject it
SDL_UpdateHapticEffect(w, id, level, accepted) ==
  LET w1 == Issue(w, "SDL_UpdateHapticEffect", id, level)
  IN IF accepted /\ w.hw.open /\ id \in w.hw.effects
     THEN [w1 EXCEPT !.hw.level = level]
     ELSE w1

----------------------------------------------------------------------------
(* namespace Telemetry *)

TELEMETRY_VERSION == 1

NoRecord == [version |-> 0]

\* numeric value of *Game::current_mode as published; 0 for a null pointer
PublishedMode(mode) == IF mode = "NULL" THEN "0" ELSE mode

\* Telemetry::Init; shm is the outcome of CreateFileMapping / MapViewOfFile
TelemetryInit(w, shm) ==
  IF ~w.settings.TelemetryEnabled THEN w
  ELSE IF shm # "ok" THEN w     \* both failure paths leave hMapFile and pData null
  ELSE [w EXCEPT !.tel.hMapFile = TRUE,
                 !.tel.pData = TRUE,
                 !.tel.data = [version |-> TELEMETRY_VERSION, packetId |-> DwZero],
                 !.tel.initialized = TRUE]

\* Telemetry::Write taking the next id from the shared record
TelemetryWriteReadBack(w, car, inGameplay, mode, env) ==
  IF ~w.tel.pData THEN w
  ELSE LET id == DwAdd(w.tel.data.packetId, 1)
       IN [w EXCEPT !.tel.packetId = id,
                    !.tel.data =
                       [version |-> w.tel.data.version,
                        packetId |-> id,
                        speed |-> car.speed,
                        steeringAngle |-> car.steeringAngle,
                        lateralG1 |-> car.lateralForce1,
                        lateralG2 |-> car.lateralForce2,
                        impactForce |-> car.impactForce,
                        gear |-> car.curGear,
                        prevGear |-> car.prevGearState,
                        stateFlags |-> car.stateFlags,
                        carFlags |-> car.carFlags,
                        surfaceType |-> car.surf,
                        vibrationLeft |-> env.VibrationLeftMotor,
                        vibrationRight |-> env.VibrationRightMotor,
                        gameMode |-> PublishedMode(mode),
                        isInGameplay |-> IF inGameplay THEN 1 ELSE 0]]

\* Telemetry::Write
TelemetryWrite(w, car, inGameplay, mode, env) ==
  IF ~w.tel.pData THEN w
  ELSE LET id == DwAdd(w.tel.packetId, 1)
       IN [w EXCEPT !.tel.packetId = id,
                    !.tel.data =
                       [version |-> w.tel.data.version,
                        packetId |-> id,
                        speed |-> car.speed,
                        steeringAngle |-> car.steeringAngle,
                        lateralG1 |-> car.lateralForce1,
                        lateralG2 |-> car.lateralForce2,
                        impactForce |-> car.impactForce,
                        gear |-> car.curGear,
                        prevGear |-> car.prevGearState,
                        stateFlags |-> car.stateFlags,
                        carFlags |-> car.carFlags,
                        surfaceType |-> car.surf,
                        vibrationLeft |-> env.VibrationLeftMotor,
                        vibrationRight |-> env.VibrationRightMotor,
                        gameMode |-> PublishedMode(mode),
                        isInGameplay |-> IF inGameplay THEN 1 ELSE 0]]

\* Telemetry::Shutdown
TelemetryShutdown(w) ==
  [w EXCEPT !.tel.pData = FALSE,
            !.tel.hMapFile = FALSE,
            !.tel.data = NoRecord,
            !.tel.initialized = FALSE]

----------------------------------------------------------------------------
(* Wheel profiles.  Names are sequences of character codes; torques are    *)
(* fixed-point Nm.                                                         *)

KnownWheels ==
  <<
    [nameSubstring |-> <<77,111,122,97,32,82,51>>, maxTorqueNm |-> 39000],
    [nameSubstring |-> <<77,111,122,97,32,82,53>>, maxTorqueNm |-> 55000],
    [nameSubstring |-> <<77,111,122,97,32,82,57>>, maxTorqueNm |-> 90000],
    [nameSubstring |-> <<77,111,122,97,32,82,49,50>>, maxTorqueNm |-> 120000],
    [nameSubstring |-> <<77,111,122,97,32,82,49,54>>, maxTorqueNm |-> 160000],
    [nameSubstring |-> <<77,111,122,97,32,82,50,49>>, maxTorqueNm |-> 210000],
    [nameSubstring |-> <<70,97,110,97,116,101,99,32,67,83,76,32,68,68>>, maxTorqueNm |-> 80000],
    [nameSubstring |-> <<70,97,110,97,116,101,99,32,71,84,32,68,68>>, maxTorqueNm |-> 120000],
    [nameSubstring |-> <<70,97,110,97,116,101,99,32,68,68,49>>, maxTorqueNm |-> 200000],
    [nameSubstring |-> <<70,97,110,97,116,101,99,32,68,68,50>>, maxTorqueNm |-> 250000],
    [nameSubstring |-> <<83,105,109,117,99,117,98,101>>, maxTorqueNm |-> 250000],
    [nameSubstring |-> <<83,105,109,97,103,105,99,32,65,108,112,104,97>>, maxTorqueNm |-> 150000],
    [nameSubstring |-> <<83,105,109,97,103,105,99,32,77,49,48>>, maxTorqueNm |-> 100000],
    [nameSubstring |-> <<76,111,103,105,116,101,99,104,32,71,50,57>>, maxTorqueNm |-> 22000],
    [nameSubstring |-> <<76,111,103,105,116,101,99,104,32,71,57,50,48>>, maxTorqueNm |-> 22000],
    [nameSubstring |-> <<76,111,103,105,116,101,99,104,32,71,57,50,51>>, maxTorqueNm |-> 22000],
    [nameSubstring |-> <<76,111,103,105,116,101,99,104,32,71,50,55>>, maxTorqueNm |-> 22000],
    [nameSubstring |-> <<76,111,103,105,116,101,99,104,32,71,50,53>>, maxTorqueNm |-> 22000],
    [nameSubstring |-> <<76,111,103,105,116,101,99,104,32,71,32,80,114,111>>, maxTorqueNm |-> 110000],
    [nameSubstring |-> <<76,111,103,105,116,101,99,104,32,80,82,79>>, maxTorqueNm |-> 110000],
    [nameSubstring |-> <<84,104,114,117,115,116,109,97,115,116,101,114,32,84,51,48,48>>, maxTorqueNm |-> 39000],
    [nameSubstring |-> <<84,104,114,117,115,116,109,97,115,116,101,114,32,84,53,48,48>>, maxTorqueNm |-> 30000],
    [nameSubstring |-> <<84,104,114,117,115,116,109,97,115,116,101,114,32,84,45,71,84>>, maxTorqueNm |-> 42000],
    [nameSubstring |-> <<84,104,114,117,115,116,109,97,115,116,101,114,32,84,83,45,88,87>>, maxTorqueNm |-> 45000],
    [nameSubstring |-> <<84,104,114,117,115,116,109,97,115,116,101,114,32,84,83,45,80,67>>, maxTorqueNm |-> 45000],
    [nameSubstring |-> <<84,104,114,117,115,116,109,97,115,116,101,114,32,84,56,49,56>>, maxTorqueNm |-> 100000],
    [nameSubstring |-> <<84,104,114,117,115,116,109,97,115,116,101,114,32,84,50,52,56>>, maxTorqueNm |-> 35000],
    [nameSubstring |-> <<84,104,114,117,115,116,109,97,115,116,101,114,32,84,49,53,48>>, maxTorqueNm |-> 25000],
    [nameSubstring |-> <<84,104,114,117,115,116,109,97,115,116,101,114,32,84,77,88>>, maxTorqueNm |-> 25000],
    [nameSubstring |-> <<86,82,83,32,68,70,80>>, maxTorqueNm |-> 200000],
    [nameSubstring |-> <<67,97,109,109,117,115>>, maxTorqueNm |-> 100000]
  >>

ReferenceNm == 22000

\* ::tolower on one character code
ToLowerChar(c) == IF c >= 65 /\ c <= 90 THEN c + 32 ELSE c

ToLower(s) == [i \in 1..Len(s) |-> ToLowerChar(s[i])]

\* std::string::find(pattern) != npos
Contains(s, p) ==
  \E k \in 0..(Len(s) - Len(p)) : \A i \in 1..Len(p) : s[k + i] = p[i]

\* a device name the driver did not report
NullName == <<0>>

\* "(unknown)", which DeferredInit substitutes for it
UnknownName == <<40,117,110,107,110,111,119,110,41>>

\* the resolver returning the last matching entry of the table
DetectWheelTorqueLastMatch(name) ==
  IF name = NullName THEN 0
  ELSE LET devName == ToLower(name)
           hits == {i \in 1..Len(KnownWheels) :
                       Contains(devName, ToLower(KnownWheels[i].nameSubstring))}
       IN IF hits = {} THEN 0
          ELSE KnownWheels[CHOOSE i \in hits : \A j \in hits : j <= i].maxTorqueNm

\* FFB::DetectWheelTorque
DetectWheelTorque(name) ==
  IF name = NullName THEN 0
  ELSE LET devName == ToLower(name)
           hits == {i \in 1..Len(KnownWheels) :
                       Contains(devName, ToLower(KnownWheels[i].nameSubstring))}
       IN IF hits = {} THEN 0
          ELSE KnownWheels[CHOOSE i \in hits : \A j \in hits : i <= j].maxTorqueNm

----------------------------------------------------------------------------
(* Device lifecycle: FFB::CreateEffects, FFB::DeferredInit                 *)

\* FFB::CreateEffects(features); createOk: SDL_CreateHapticEffect succeeds
CreateEffects(w, features, createOk) ==
  IF "CONSTANT" \notin features THEN w
  ELSE LET w1 == Issue(w, "SDL_CreateHapticEffect", 0, 0)
       IN IF createOk
          THEN LET w2 == [w1 EXCEPT !.ffb.constantEffectId = 0,
                                    !.hw.effects = @ \cup {0},
                                    !.hw.created = @ + 1,
                                    !.hw.level = 0]
                   w3 == Issue(w2, "SDL_RunHapticEffect", 0, 0)
               IN [w3 EXCEPT !.hw.running = @ \cup {0}]
          ELSE [w1 EXCEPT !.ffb.constantEffectId = -1]

\* torque scale from the wheel's rating (DeferredInit, "Direct drive torque scaling")
TorqueScale(wheelNm) ==
  IF wheelNm > ReferenceNm THEN TruncDiv(ReferenceNm * One, wheelNm) ELSE One

\* the rating taken from the profile table whenever the table knows the wheel
WheelNmProfileFirst(w, name) ==
  IF DetectWheelTorque(name) > 0 THEN DetectWheelTorque(name)
  ELSE w.settings.FFBWheelTorqueNm

\* the rating DeferredInit uses: the manual override, else the profile table
WheelNm(w, name) ==
  IF w.settings.FFBWheelTorqueNm <= 0 THEN DetectWheelTorque(name)
  ELSE w.settings.FFBWheelTorqueNm

\* FFB::DeferredInit past its initAttempted guard: the initialization sequence.
\* env holds the answers of the haptic subsystem.  The result is the world
\* left behind and the returned bool.
InitSequence(w, env) ==
  LET w1 == [Issue(w, "SDL_Init", -1, 0) EXCEPT !.ffb.initAttempted = TRUE,
                                                !.hw.sdlInits = @ + 1]
  IN IF ~env.sdlInitOk THEN [w |-> w1, ret |-> FALSE]
     ELSE
       LET numHaptics == Len(env.devices)
           w2 == Issue(w1, "SDL_GetHaptics", -1, 0)
       IN IF numHaptics <= 0 THEN [w |-> w2, ret |-> FALSE]
          ELSE
            LET deviceIdx == IF w.settings.FFBDevice < 0 \/ w.settings.FFBDevice >= numHaptics
                             THEN 0 ELSE w.settings.FFBDevice
                dev == env.devices[deviceIdx + 1]
                w3 == Issue(w2, "SDL_OpenHaptic", -1, 0)
            IN IF ~env.openOk THEN [w |-> w3, ret |-> FALSE]
               ELSE
                 LET name == IF dev.name = NullName THEN UnknownName ELSE dev.name
                     wheelNm == WheelNm(w, name)
                     w4 == [w3 EXCEPT !.ffb.hapticDevice = OpenedDevice,
                                      !.ffb.deviceName = name,
                                      !.ffb.wheelTorqueScale = TorqueScale(wheelNm),
                                      !.hw.open = TRUE,
                                      !.hw.opens = @ + 1]
                     w5 == IF "AUTOCENTER" \in dev.features
                           THEN [Issue(w4, "SDL_SetHapticAutocenter", -1, 0)
                                   EXCEPT !.hw.autocenter = 0]
                           ELSE w4
                     gain == Clamp(TruncDiv(w.settings.FFBGlobalStrength * 100, One), 0, 100)
                     w6 == IF "GAIN" \in dev.features
                           THEN [Issue(w5, "SDL_SetHapticGain", -1, gain)
                                   EXCEPT !.hw.gain = gain]
                           ELSE w5
                     w7 == CreateEffects(w6, dev.features, env.createOk)
                 IN [w |-> [w7 EXCEPT !.ffb.initialized = TRUE], ret |-> TRUE]

\* DeferredInit guarded by initialized alone: every Update of an
\* uninitialized device runs the sequence again
DeferredInitRetry(w, env) ==
  IF w.ffb.initialized THEN [w |-> w, ret |-> TRUE]
  ELSE InitSequence(w, env)

\* FFB::DeferredInit
DeferredInit(w, env) ==
  IF w.ffb.initAttempted THEN [w |-> w, ret |-> w.ffb.initialized]
  ELSE InitSequence(w, env)

----------------------------------------------------------------------------
(* Force synthesis: the gameplay part of FFB::Update                       *)

\* GameState values Update treats as active driving (FFB::IsInGameplay);
\* "NULL" stands for a null Game::current_mode pointer
IsInGameplay(mode) ==
  IF mode = "NULL" THEN FALSE
  ELSE mode = "STATE_GAME" \/ mode = "STATE_START" \/ mode = "STATE_GOAL"
       \/ mode = "STATE_TIMEUP" \/ mode = "STATE_SMPAUSEMENU"

\* (flags & 0x1000) != 0
CollisionBit(flags) == (flags \div 4096) % 2 = 1

\* a jolt pushing toward the side steered toward
ImpactDirToward(steeringAngle) == IF steeringAngle >= 0 THEN One ELSE -One

\* direction of a crash jolt: pushes away from the side steered toward
ImpactDir(steeringAngle) == IF steeringAngle >= 0 THEN -One ELSE One

\* the filter with its two rates exchanged
LateralEmaSlowAttack(s, lateralForce1, lateralForce2) ==
  LET lateralCombined == lateralForce1 + lateralForce2
      alpha == IF Abs(lateralCombined) > Abs(s) THEN 1000 ELSE 2500
  IN Mul(alpha, lateralCombined) + Mul(One - alpha, s)

\* dual-rate EMA of the combined lateral force
LateralEma(s, lateralForce1, lateralForce2) ==
  LET lateralCombined == lateralForce1 + lateralForce2
      alpha == IF Abs(lateralCombined) > Abs(s) THEN 2500 ELSE 1000
  IN Mul(alpha, lateralCombined) + Mul(One - alpha, s)

\* the speed-window trigger latching a 60-tick timer
SpeedWindowStageShort(f, car, wallImpact) ==
  LET hist == [f.speedHistory EXCEPT ![(f.speedHistoryIdx % 8) + 1] = car.speed]
      idx == f.speedHistoryIdx + 1
      f1 == [f EXCEPT !.speedHistory = hist, !.speedHistoryIdx = idx]
      windowDelta == hist[((idx - 6) % 8) + 1] - car.speed
  IN IF f1.crashImpulseTimer <= 0 /\ idx > 6 /\ windowDelta > 300 /\ car.speed > 1000
     THEN [f1 EXCEPT !.crashImpulseForce =
                        Mul(Mul(ImpactDir(car.steeringAngle),
                                Clamp(Mul(windowDelta - 300, 120000), 8000, One)),
                            wallImpact),
                     !.crashImpulseTimer = 60,
                     !.smoothedLateral = 0]
     ELSE f1

\* speed history write, then the speed-window crash trigger
SpeedWindowStage(f, car, wallImpact) ==
  LET hist == [f.speedHistory EXCEPT ![(f.speedHistoryIdx % 8) + 1] = car.speed]
      idx == f.speedHistoryIdx + 1
      f1 == [f EXCEPT !.speedHistory = hist, !.speedHistoryIdx = idx]
  IN IF f1.crashImpulseTimer <= 0 /\ idx > 6
     THEN LET oldSpeed == hist[((idx - 6) % 8) + 1]
              windowDelta == oldSpeed - car.speed
          IN IF windowDelta > 300 /\ car.speed > 1000
             THEN LET impactMag == Clamp(Mul(windowDelta - 300, 120000), 8000, One)
                      impactDir == ImpactDir(car.steeringAngle)
                  IN [f1 EXCEPT !.crashImpulseForce = Mul(Mul(impactDir, impactMag), wallImpact),
                                !.crashImpulseTimer = 90,
                                !.smoothedLateral = 0]
             ELSE f1
     ELSE f1

\* the rising-edge trigger without the test of the running timer
FlagEdgeStageRelatch(f, car, wallImpact) ==
  IF CollisionBit(car.stateFlags) /\ ~CollisionBit(f.prevCollisionFlags)
  THEN [f EXCEPT !.crashImpulseForce = Mul(Mul(ImpactDir(car.steeringAngle), 8000), wallImpact),
                 !.crashImpulseTimer = 90,
                 !.smoothedLateral = 0]
  ELSE f

\* the rising-edge trigger replacing a crash latched earlier on the same tick
FlagEdgeStageOverwrite(f, car, wallImpact) ==
  IF /\ CollisionBit(car.stateFlags) /\ ~CollisionBit(f.prevCollisionFlags)
     /\ (f.crashImpulseTimer <= 0 \/ f.crashImpulseTimer = 90)
  THEN [f EXCEPT !.crashImpulseForce = Mul(Mul(ImpactDir(car.steeringAngle), 8000), wallImpact),
                 !.crashImpulseTimer = 90,
                 !.smoothedLateral = 0]
  ELSE f

\* the trigger firing on the contact bit's level instead of its rising edge
FlagEdgeStageLevel(f, car, wallImpact) ==
  IF CollisionBit(car.stateFlags) /\ f.crashImpulseTimer <= 0
  THEN [f EXCEPT !.crashImpulseForce = Mul(Mul(ImpactDir(car.steeringAngle), 8000), wallImpact),
                 !.crashImpulseTimer = 90,
                 !.smoothedLateral = 0]
  ELSE f

\* the flags8 0x1000 rising-edge crash trigger
FlagEdgeStage(f, car, wallImpact) ==
  LET collisionActive == CollisionBit(car.stateFlags)
      wasColliding == CollisionBit(f.prevCollisionFlags)
  IN IF collisionActive /\ ~wasColliding /\ f.crashImpulseTimer <= 0
     THEN [f EXCEPT !.crashImpulseForce = Mul(Mul(ImpactDir(car.steeringAngle), 8000), wallImpact),
                    !.crashImpulseTimer = 90,
                    !.smoothedLateral = 0]
     ELSE f

\* the steering weight added on every tick, jolt or not
SteeringActiveAlways(timer) == TRUE

\* "if (crashImpulseTimer <= 80)": the steering weight is added
SteeringActive(timer) == timer <= 80

\* "if (crashImpulseTimer > 0) if (crashImpulseTimer > 80)": the jolt is added
JoltActive(timer) == timer > 0 /\ timer > 80

\* steering weight (self-aligning torque) contribution
SteeringWeight(f, speedNorm, steeringGain) ==
  IF SteeringActive(f.crashImpulseTimer)
  THEN LET lateralNorm == Clamp(TruncDiv(f.smoothedLateral, 24), -One, One)
           absLat == Abs(lateralNorm)
           dropoff == One - 2 * (absLat - 7000)
           satForce == IF absLat < 7000 THEN lateralNorm
                       ELSE (IF lateralNorm > 0 THEN 1 ELSE -1) * Mul(7000, Max(dropoff, 4000))
           raw == Mul(Mul(Mul(Mul(satForce, speedNorm), steeringGain), 1200), f.wheelTorqueScale)
           maxSteeringForce == Mul(1200, f.wheelTorqueScale)
       IN Clamp(raw, -maxSteeringForce, maxSteeringForce)
  ELSE 0

\* crash jolt contribution for the timer value at the start of the force stage
CrashEnvelope(timer) ==
  IF timer > 80 THEN (IF timer > 85 THEN One ELSE TruncDiv((timer - 80) * One, 5))
  ELSE 0

CrashJolt(f) == Mul(f.crashImpulseForce, CrashEnvelope(f.crashImpulseTimer))

\* the latch test without the test of the running timer
GearLatchRestart(f, curGear) ==
  IF curGear # f.prevGear /\ f.prevGear # 0 THEN 6
  ELSE f.gearShiftTimer

\* gearShiftTimer after the latch test of the gear-shift kick
GearLatch(f, curGear) ==
  IF curGear # f.prevGear /\ f.prevGear # 0 /\ f.gearShiftTimer <= 0 THEN 6
  ELSE f.gearShiftTimer

\* gear kick contribution for a (latched) timer value
GearKick(timer, curGear, prevGear, gearGain) ==
  IF timer > 0
  THEN LET kickDecay == TruncDiv(timer * One, 6)
           kickForce == Mul(Mul(kickDecay, 3000), gearGain)
       IN IF curGear > prevGear THEN kickForce ELSE -kickForce
  ELSE 0

\* an oscillator that keeps its phase while its condition is false
NextPhaseHold(phase, active, increment) ==
  IF active THEN (phase + increment) % TwoPi ELSE phase

\* an oscillator's phase after the tick
NextPhase(phase, active, increment) ==
  IF active THEN (phase + increment) % TwoPi ELSE 0

\* the limiter with a step of 3000 instead of 2000
SlewLimitWide(level, prevConstantLevel, bypassSlew) ==
  LET slewDelta == ToInt16(level - prevConstantLevel)
  IN IF Abs(slewDelta) > 3000 /\ ~bypassSlew
     THEN ToInt16(prevConstantLevel + (IF slewDelta > 0 THEN 3000 ELSE -3000))
     ELSE level

\* slew-rate limiter on the int16_t level
SlewLimit(level, prevConstantLevel, bypassSlew) ==
  LET slewDelta == ToInt16(level - prevConstantLevel)
  IN IF Abs(slewDelta) > 2000 /\ ~bypassSlew
     THEN ToInt16(prevConstantLevel + (IF slewDelta > 0 THEN 2000 ELSE -2000))
     ELSE level

\* the deadband with a threshold of 20
PastDeadbandNarrow(level, prevConstantLevel, crashImpulseTimer) ==
  LET delta == ToInt16(Abs(level - prevConstantLevel))
  IN delta > 20 \/ crashImpulseTimer > 80

\* deadband test: is the level flushed to the device
PastDeadband(level, prevConstantLevel, crashImpulseTimer) ==
  LET delta == ToInt16(Abs(level - prevConstantLevel))
  IN delta > 200 \/ crashImpulseTimer > 80

\* output shaping of a computed level: the level after the limiter and
\* whether it is sent; the timers are the values after their decrement
OutputShaping(level, prevConstantLevel, crashImpulseTimer, gearShiftTimer) ==
  LET bypassSlew == crashImpulseTimer > 80 \/ gearShiftTimer > 0
      shaped == SlewLimit(level, prevConstantLevel, bypassSlew)
  IN [level |-> shaped, flush |-> PastDeadband(shaped, prevConstantLevel, crashImpulseTimer)]

\* the conversion clipping at +/-1.0 instead of saturating softly
LevelOfHardClip(totalForce) == ToInt16(TruncDiv(Clamp(totalForce, -One, One) * 32767, One))

\* int16_t(std::tanh(totalForce) * 32767.0f)
LevelOf(totalForce) == ToInt16(TruncDiv(Tanh(totalForce) * 32767, One))

\* locals of a step that ran no force stage
NoLocals == [ran |-> FALSE]

\* the force stage of Update: "if (constantEffectId >= 0 && updateForces)"
ForceStage(w, car, env) ==
  LET f == w.ffb
      st == w.settings
      speed == car.speed
      speedNorm == Clamp(speed, 0, One)
      offRoad == \E i \in 1..4 : car.surf[i] > 1
      steeringWeight == SteeringWeight(f, speedNorm, st.FFBSteeringWeight)
      jolt == IF f.crashImpulseTimer > 0 THEN CrashJolt(f) ELSE 0
      crashTimer == IF f.crashImpulseTimer > 0 THEN f.crashImpulseTimer - 1
                    ELSE f.crashImpulseTimer
      latched == GearLatch(f, car.curGear)
      kick == GearKick(latched, car.curGear, f.prevGear, st.FFBGearShift)
      gearTimer == IF latched > 0 THEN latched - 1 ELSE latched
      rumbleOn == offRoad /\ speed > 500
      rumblePhase == NextPhase(f.rumblePhase, rumbleOn, 314160)
      rumbleIntensity == Mul(Mul(Mul(speedNorm, st.FFBRumbleStrip), 2000), f.wheelTorqueScale)
      rumble == IF rumbleOn THEN Mul(Sin(rumblePhase), rumbleIntensity) ELSE 0
      lateralMag == Abs(f.smoothedLateral)
      slipOn == lateralMag > 120000 /\ speed > 1000
      slipPhase == NextPhase(f.slipPhase, slipOn, 230384)
      slipAmount == Clamp(TruncDiv(lateralMag - 120000, 18), 0, One)
      slipRumble == IF slipOn
                    THEN Mul(Mul(Mul(Mul(Sin(slipPhase), slipAmount), st.FFBTireSlip), 1200),
                             f.wheelTorqueScale)
                    ELSE 0
      engineOn == speed < 1500
      enginePhase == NextPhase(f.enginePhase, engineOn, 157080)
      motorVal == Max(env.VibrationLeftMotor, env.VibrationRightMotor)
      engineIntensity == IF motorVal > 500 THEN motorVal ELSE 6000
      speedFade == One - TruncDiv(speed * One, 1500)
      revForce == IF engineOn
                  THEN Mul(Mul(Mul(Mul(Sin(enginePhase), engineIntensity), speedFade), 2500),
                           f.wheelTorqueScale)
                  ELSE 0
      summed == steeringWeight + jolt + kick + rumble + slipRumble + revForce
      totalForce == IF st.FFBInvertForce THEN -summed ELSE summed
      level == LevelOf(totalForce)
      shaped == OutputShaping(level, f.prevConstantLevel, crashTimer, gearTimer)
      w1 == [w EXCEPT !.ffb.crashImpulseTimer = crashTimer,
                      !.ffb.gearShiftTimer = gearTimer,
                      !.ffb.rumblePhase = rumblePhase,
                      !.ffb.slipPhase = slipPhase,
                      !.ffb.enginePhase = enginePhase,
                      !.locals = [ran |-> TRUE,
                                  steeringAdded |-> SteeringActive(f.crashImpulseTimer),
                                  steeringWeight |-> steeringWeight,
                                  joltAdded |-> JoltActive(f.crashImpulseTimer),
                                  envelope |-> CrashEnvelope(f.crashImpulseTimer),
                                  jolt |-> jolt,
                                  kickAdded |-> latched > 0,
                                  kick |-> kick,
                                  rumbleWave |-> IF rumbleOn THEN Sin(rumblePhase) ELSE 0,
                                  rumble |-> rumble,
                                  slipRumble |-> slipRumble,
                                  revForce |-> revForce,
                                  totalForce |-> totalForce,
                                  target |-> level,
                                  level |-> shaped.level,
                                  bypassSlew |-> (crashTimer > 80 \/ gearTimer > 0),
                                  flushed |-> shaped.flush]]
  IN IF shaped.flush
     THEN [SDL_UpdateHapticEffect(w1, f.constantEffectId, shaped.level, env.accepted)
             EXCEPT !.ffb.prevConstantLevel = shaped.level]
     ELSE w1

\* the legacy sine-effect stage: "if (sineEffectId >= 0 && updateForces)"
SineStage(w, car, env) ==
  IF w.ffb.sineEffectId >= 0
  THEN Issue(w, "SDL_UpdateHapticEffect", w.ffb.sineEffectId, 0)
  ELSE w

\* a stage's spdlog::info line when the stage latched a crash
LogIfLatched(w, before, after, line) ==
  IF after.crashImpulseTimer > before.crashImpulseTimer THEN Issue(w, line, -1, 0) ELSE w

\* the diagnostic line, at most once in 2000 ms; tick is GetTickCount()
DiagStage(w, tick) ==
  IF (LET d == DwSub(tick, w.ffb.lastDiagTime) IN d[1] > 0 \/ d[2] >= 2000)
     /\ w.ffb.speedHistoryIdx > 6
  THEN [Issue(w, "spdlog::info FFB DIAG", -1, 0) EXCEPT !.ffb.lastDiagTime = tick]
  ELSE w

\* Update on a gameplay tick with the device initialized
Synthesize(w, car, env) ==
  LET f0 == [w.ffb EXCEPT !.updateCounter = @ + 1,
                          !.smoothedLateral =
                             LateralEma(@, car.lateralForce1, car.lateralForce2)]
      f1 == SpeedWindowStage(f0, car, w.settings.FFBWallImpact)
      l1 == LogIfLatched(w, f0, f1, "spdlog::info FFB: CRASH impulse!")
      f2 == FlagEdgeStage(f1, car, w.settings.FFBWallImpact)
      l2 == LogIfLatched(l1, f1, f2, "spdlog::info FFB: CRASH impulse from flags8 0x1000!")
      w1 == [l2 EXCEPT !.ffb = f2]
      w2 == IF f2.constantEffectId >= 0 THEN ForceStage(w1, car, env) ELSE w1
      w3 == SineStage(w2, car, env)
      w4 == DiagStage(w3, w.ffb.lastUpdateTick)
  IN [w4 EXCEPT !.ffb.prevGear = car.curGear,
                !.ffb.prevCollisionFlags = car.stateFlags,
                !.ffb.prevSpeed = car.speed]

\* the zero command sent on every tick outside gameplay
ZeroOutsideGameplayEveryTick(w, env) ==
  IF w.ffb.constantEffectId >= 0
  THEN [SDL_UpdateHapticEffect(w, w.ffb.constantEffectId, 0, env.accepted)
          EXCEPT !.ffb.prevConstantLevel = 0,
                 !.ffb.smoothedLateral = 0,
                 !.ffb.crashImpulseTimer = 0]
  ELSE w

\* the zero command also clearing the edge detectors and the gear kick
ZeroOutsideGameplayClearEdges(w, env) ==
  IF w.ffb.constantEffectId >= 0 /\ w.ffb.prevConstantLevel # 0
  THEN [SDL_UpdateHapticEffect(w, w.ffb.constantEffectId, 0, env.accepted)
          EXCEPT !.ffb.prevConstantLevel = 0,
                 !.ffb.smoothedLateral = 0,
                 !.ffb.crashImpulseTimer = 0,
                 !.ffb.prevCollisionFlags = 0,
                 !.ffb.gearShiftTimer = 0]
  ELSE w

\* Update outside gameplay with the device initialized: zero the force once
ZeroOutsideGameplay(w, env) ==
  IF w.ffb.constantEffectId >= 0 /\ w.ffb.prevConstantLevel # 0
  THEN [SDL_UpdateHapticEffect(w, w.ffb.constantEffectId, 0, env.accepted)
          EXCEPT !.ffb.prevConstantLevel = 0,
                 !.ffb.smoothedLateral = 0,
                 !.ffb.crashImpulseTimer = 0]
  ELSE w

\* FFB::Update past its null check
UpdateBody(w, car, mode, tickCount, env) ==
  LET w1 == [w EXCEPT !.ffb.lastUpdateTick = tickCount]
      w2 == IF ~w1.tel.initialized /\ w1.settings.TelemetryEnabled
            THEN TelemetryInit(w1, env.shm) ELSE w1
      inGameplay == IsInGameplay(mode)
      w3 == TelemetryWrite(w2, car, inGameplay, mode, env)
  IN IF ~w3.settings.DirectInputFFB THEN w3
     ELSE LET di == IF ~w3.ffb.initialized THEN DeferredInit(w3, env)
                    ELSE [w |-> w3, ret |-> TRUE]
          IN IF ~di.ret THEN di.w
             ELSE IF ~inGameplay THEN ZeroOutsideGameplay(di.w, env)
             ELSE Synthesize(di.w, car, env)

\* Update recording the watchdog timestamp before its null check
UpdateStampFirst(w, car, mode, tickCount, env) ==
  IF car.ptr = 0 THEN [w EXCEPT !.ffb.lastUpdateTick = tickCount]
  ELSE UpdateBody(w, car, mode, tickCount, env)

\* FFB::Update(car); a car with ptr = 0 is the null snapshot
Update(w, car, mode, tickCount, env) ==
  IF car.ptr = 0 THEN w
  ELSE UpdateBody(w, car, mode, tickCount, env)

\* the firing condition of the watchdog
WatchdogDue(f, tickCount) ==
  LET elapsed == DwSub(tickCount, f.lastUpdateTick)
  IN DwGt(elapsed, 250) /\ DwGt(f.lastUpdateTick, 0) /\ f.prevConstantLevel # 0

\* the watchdog clearing prevConstantLevel without sending the zero level
CheckWatchdogStoreOnly(w, tickCount, env) ==
  IF ~w.ffb.initialized \/ w.ffb.hapticDevice = NullDevice \/ w.ffb.constantEffectId < 0
  THEN w
  ELSE IF WatchdogDue(w.ffb, tickCount)
  THEN [w EXCEPT !.ffb.prevConstantLevel = 0,
                 !.ffb.smoothedLateral = 0,
                 !.ffb.crashImpulseTimer = 0]
  ELSE w

\* FFB::CheckWatchdog
CheckWatchdog(w, tickCount, env) ==
  IF ~w.ffb.initialized \/ w.ffb.hapticDevice = NullDevice \/ w.ffb.constantEffectId < 0
  THEN w
  ELSE IF WatchdogDue(w.ffb, tickCount)
  THEN [SDL_UpdateHapticEffect(w, w.ffb.constantEffectId, 0, env.accepted)
          EXCEPT !.ffb.prevConstantLevel = 0,
                 !.ffb.smoothedLateral = 0,
                 !.ffb.crashImpulseTimer = 0]
  ELSE w

\* the destroy call without the test of the id
DestroyUnchecked(w, id) ==
  [Issue(w, "SDL_DestroyHapticEffect", id, 0)
     EXCEPT !.hw.effects = @ \ {id},
            !.hw.running = @ \ {id},
            !.hw.destroyed = @ + 1]

\* "if (id >= 0) SDL_DestroyHapticEffect(hapticDevice, id)"
DestroyIfCreated(w, id) ==
  IF id >= 0
  THEN [Issue(w, "SDL_DestroyHapticEffect", id, 0)
          EXCEPT !.hw.effects = @ \ {id},
                 !.hw.running = @ \ {id},
                 !.hw.destroyed = @ + 1]
  ELSE w

\* FFB::Shutdown past its null-device check
ShutdownDevice(w) ==
  LET w1 == [Issue(w, "SDL_StopHapticEffects", -1, 0) EXCEPT !.hw.running = {}]
      w2 == DestroyIfCreated(w1, w.ffb.springEffectId)
      w3 == DestroyIfCreated(w2, w.ffb.damperEffectId)
      w4 == DestroyIfCreated(w3, w.ffb.constantEffectId)
      w5 == DestroyIfCreated(w4, w.ffb.sineEffectId)
      w6 == DestroyIfCreated(w5, w.ffb.frictionEffectId)
      w7 == [w6 EXCEPT !.ffb.springEffectId = -1,
                       !.ffb.damperEffectId = -1,
                       !.ffb.constantEffectId = -1,
                       !.ffb.sineEffectId = -1,
                       !.ffb.frictionEffectId = -1]
      w8 == [Issue(w7, "SDL_CloseHaptic", -1, 0) EXCEPT !.hw.open = FALSE]
  IN [w8 EXCEPT !.ffb.hapticDevice = NullDevice, !.ffb.initialized = FALSE]

\* Shutdown without its null-device check
ShutdownUnchecked(w) ==
  ShutdownDevice(Issue(TelemetryShutdown(w), "spdlog::info Telemetry: Shared memory closed", -1, 0))

\* FFB::Shutdown; Telemetry::Shutdown always writes its log line
Shutdown(w) ==
  LET w1 == Issue(TelemetryShutdown(w), "spdlog::info Telemetry: Shared memory closed", -1, 0)
  IN IF w1.ffb.hapticDevice = NullDevice THEN w1
     ELSE ShutdownDevice(w1)

\* DirectInputFFBHook::validate
HookValidate(st) == st.DirectInputFFB \/ st.TelemetryEnabled

\* apply initializing the device while installing the hook
HookApplyEager(w, env) ==
  [w |-> DeferredInit(Issue(w, "safetyhook::create_inline", -1, 0), env).w, ret |-> env.hookOk]

\* DirectInputFFBHook::apply: installs the inline hook and nothing else
HookApply(w, env) ==
  [w |-> Issue(w, "safetyhook::create_inline", -1, 0), ret |-> env.hookOk]

\* Plugin_Init as far as this core goes: Settings::read, then
\* HookManager::ApplyHooks applies the hook if it validates
Plugin_Init(w, ini, env) ==
  LET w1 == [w EXCEPT !.settings = ini]
  IN IF HookValidate(ini) THEN HookApply(w1, env)
     ELSE [w |-> w1, ret |-> FALSE]

\* DllMain(DLL_PROCESS_ATTACH)
ProcessAttach(w, ini, env) ==
  Plugin_Init(Issue(w, "proxy::on_attach", -1, 0), ini, env)

\* detach handing over to the proxy before shutting the device down
ProcessDetachProxyFirst(w) ==
  Shutdown(Issue(w, "proxy::on_detach", -1, 0))

\* DllMain(DLL_PROCESS_DETACH)
ProcessDetach(w) ==
  Issue(Shutdown(w), "proxy::on_detach", -1, 0)

----------------------------------------------------------------------------
(* Inputs: INI files, answers of the environment, telemetry snapshots      *)

\* Settings as initialized in plugin.hpp
DefaultSettings ==
  [DirectInputFFB |-> FALSE, TelemetryEnabled |-> FALSE, FFBDevice |-> -1,
   FFBGlobalStrength |-> 10000, FFBSteeringWeight |-> 10000, FFBWallImpact |-> 10000,
   FFBRumbleStrip |-> 6000, FFBGearShift |-> 3000, FFBTireSlip |-> 8000,
   FFBWheelTorqueNm |-> 0, FFBInvertForce |-> FALSE]

IniFiles ==
  { DefaultSettings,
    [DefaultSettings EXCEPT !.DirectInputFFB = TRUE],
    [DefaultSettings EXCEPT !.DirectInputFFB = TRUE, !.TelemetryEnabled = TRUE,
                            !.FFBDevice = 1, !.FFBInvertForce = TRUE,
                            !.FFBWallImpact = 20000],
    [DefaultSettings EXCEPT !.TelemetryEnabled = TRUE] }

GenericWheel ==
  [name |-> <<71,101,110,101,114,105,99,32,85,83,66,32,87,104,101,101,108>>,
   features |-> {"CONSTANT", "GAIN", "AUTOCENTER"}]

\* "FANATEC dd1 Wheel Base"
DirectDriveWheel ==
  [name |-> <<70,65,78,65,84,69,67,32,100,100,49,32,87,104,101,101,108,32,66,97,115,101>>,
   features |-> {"CONSTANT", "SINE", "SPRING", "DAMPER", "GAIN"}]

\* a rumble pad: no constant force, no name
RumblePad == [name |-> NullName, features |-> {"SINE"}]

BaseEnv ==
  [sdlInitOk |-> TRUE, devices |-> <<GenericWheel>>, openOk |-> TRUE, createOk |-> TRUE,
   shm |-> "ok", accepted |-> TRUE, hookOk |-> TRUE,
   VibrationLeftMotor |-> 0, VibrationRightMotor |-> 0]

NullCar == [ptr |-> 0]

\* cornering at speed right after an upshift
CruiseCar ==
  [ptr |-> 1, speed |-> 6000, stateFlags |-> 0, carFlags |-> 0,
   lateralForce1 |-> 100000, lateralForce2 |-> 80000, curGear |-> 3, prevGearState |-> 2,
   impactForce |-> 0, steeringAngle |-> 2000, surf |-> <<1, 1, 1, 1>>]

\* contact bit set, steering left, two wheels off the road
CrashCar ==
  [ptr |-> 1, speed |-> 4000, stateFlags |-> 4096, carFlags |-> 64,
   lateralForce1 |-> -150000, lateralForce2 |-> -150000, curGear |-> 2, prevGearState |-> 3,
   impactForce |-> -5000, steeringAngle |-> -3000, surf |-> <<2, 1, 4, 1>>]

\* standing on the grid
IdleCar ==
  [ptr |-> 1, speed |-> 0, stateFlags |-> 0, carFlags |-> 0,
   lateralForce1 |-> 0, lateralForce2 |-> 0, curGear |-> 1, prevGearState |-> 0,
   impactForce |-> 0, steeringAngle |-> 0, surf |-> <<1, 1, 1, 1>>]

\* the calls of Update explored: snapshot, *Game::current_mode and the
\* environment's answers during the call
Call(car, mode, env) == [car |-> car, mode |-> mode, env |-> env]

UpdateCalls ==
  { Call(NullCar, "STATE_GAME", BaseEnv),
    \* gameplay ticks
    Call(CruiseCar, "STATE_GAME", BaseEnv),
    Call(CrashCar, "STATE_GAME", BaseEnv),
    Call(IdleCar, "STATE_GAME", BaseEnv),
    Call(IdleCar, "STATE_START", [BaseEnv EXCEPT !.VibrationRightMotor = 8000]),
    Call(CruiseCar, "STATE_SMPAUSEMENU", BaseEnv),
    Call(CruiseCar, "STATE_GAME", [BaseEnv EXCEPT !.accepted = FALSE]),
    \* ticks outside gameplay
    Call(CruiseCar, "STATE_MENU", BaseEnv),
    Call(CruiseCar, "NULL", BaseEnv),
    Call(CruiseCar, "STATE_MENU", [BaseEnv EXCEPT !.accepted = FALSE]),
    \* other answers to the initialization sequence
    Call(CruiseCar, "STATE_GAME", [BaseEnv EXCEPT !.devices = <<GenericWheel, DirectDriveWheel>>]),
    Call(CruiseCar, "STATE_GAME", [BaseEnv EXCEPT !.devices = <<RumblePad>>]),
    Call(CruiseCar, "STATE_GAME", [BaseEnv EXCEPT !.sdlInitOk = FALSE]),
    Call(CruiseCar, "STATE_GAME", [BaseEnv EXCEPT !.devices = <<>>]),
    Call(CruiseCar, "STATE_GAME", [BaseEnv EXCEPT !.openOk = FALSE]),
    Call(CruiseCar, "STATE_GAME", [BaseEnv EXCEPT !.createOk = FALSE]),
    Call(CruiseCar, "STATE_GAME", [BaseEnv EXCEPT !.shm = "CreateFileMapping failed"]) }

\* GetTickCount() at process load: 260 ms before the 32-bit counter wraps
\* (49.7 days of uptime), so that runs cover both sides of the wrap
BootTicks == { <<65535, 65276>> }

\* how far GetTickCount() moves between two entry points
ClockSteps == {250, 260}

----------------------------------------------------------------------------
(* Initial state: the static initializers *)

FfbInit ==
  [hapticDevice |-> NullDevice, initialized |-> FALSE, initAttempted |-> FALSE,
   deviceName |-> <<>>, wheelTorqueScale |-> One,
   springEffectId |-> -1, damperEffectId |-> -1, constantEffectId |-> -1,
   sineEffectId |-> -1, frictionEffectId |-> -1,
   lastUpdateTick |-> DwZero,
   prevGear |-> 0, prevCollisionFlags |-> 0, prevSpeed |-> 0,
   smoothedLateral |-> 0,
   speedHistory |-> <<0, 0, 0, 0, 0, 0, 0, 0>>, speedHistoryIdx |-> 0,
   crashImpulseTimer |-> 0, crashImpulseForce |-> 0,
   prevConstantLevel |-> 0, gearShiftTimer |-> 0,
   updateCounter |-> 0, rumblePhase |-> 0, slipPhase |-> 0, enginePhase |-> 0,
   lastDiagTime |-> DwZero]

TelInit ==
  [hMapFile |-> FALSE, pData |-> FALSE, initialized |-> FALSE,
   packetId |-> DwZero, data |-> NoRecord]

HwInit ==
  [sdlInits |-> 0, opens |-> 0, open |-> FALSE, effects |-> {}, running |-> {},
   created |-> 0, destroyed |-> 0, level |-> 0, gain |-> 100, autocenter |-> 1,
   calls |-> <<>>]

\* no scenario is replayed
NoScenario == [kind |-> "none"]

NoShape == [stage |-> "unused"]

Init ==
  /\ proc = "unloaded"
  /\ hook = FALSE
  /\ settings = DefaultSettings
  /\ ffb = FfbInit
  /\ tel = TelInit
  /\ hw = HwInit
  /\ now \in BootTicks
  /\ bootTick = now
  /\ locals = NoLocals
  /\ op = [name |-> "start", car |-> NullCar, mode |-> "NULL"]
  /\ shape = NoShape
  /\ scenario = NoScenario

----------------------------------------------------------------------------
(* Steps: one per entry point *)

\* the world an entry point starts from: the call log and locals are per step
Entry == [World EXCEPT !.hw.calls = <<>>, !.locals = NoLocals]

Leave(w) ==
  /\ settings' = w.settings
  /\ ffb' = w.ffb
  /\ tel' = w.tel
  /\ hw' = w.hw
  /\ locals' = w.locals

WithinBounds(w) ==
  /\ w.ffb.updateCounter <= MaxTicks
  /\ w.tel.packetId[1] = 0
  /\ w.tel.packetId[2] <= MaxPackets

\* the loader calls DllMain(DLL_PROCESS_ATTACH)
DllMainAttach ==
  /\ proc = "unloaded"
  /\ \E ini \in IniFiles, hookOk \in BOOLEAN :
       LET r == ProcessAttach(Entry, ini, [BaseEnv EXCEPT !.hookOk = hookOk])
       IN /\ Leave(r.w)
          /\ hook' = r.ret
  /\ proc' = "running"
  /\ op' = [name |-> "DllMainAttach", car |-> NullCar, mode |-> "NULL"]
  /\ UNCHANGED <<now, bootTick, shape, scenario>>

\* time passes
ClockAdvance ==
  /\ proc = "running"
  /\ \E d \in ClockSteps :
       LET up == DwSub(now, bootTick)
       IN /\ up[1] = 0
          /\ up[2] + d <= MaxClockSteps * 260
          /\ now' = DwAdd(now, d)
  /\ Leave(Entry)
  /\ op' = [name |-> "ClockAdvance", car |-> NullCar, mode |-> "NULL"]
  /\ UNCHANGED <<proc, hook, bootTick, shape, scenario>>

\* the game calls GamePlCar_Ctrl, which the hook routes through FFB::Update
GamePlCar_Ctrl_Hook ==
  /\ proc = "running"
  /\ hook
  /\ \E c \in UpdateCalls :
       LET w == Update(Entry, c.car, c.mode, now, c.env)
       IN /\ WithinBounds(w)
          /\ Leave(w)
          /\ op' = [name |-> "Update", car |-> c.car, mode |-> c.mode]
  /\ UNCHANGED <<proc, hook, now, bootTick, shape, scenario>>

\* the host's frequently-called entry point runs the watchdog
WatchdogCall ==
  /\ proc = "running"
  /\ \E accepted \in BOOLEAN :
       Leave(CheckWatchdog(Entry, now, [BaseEnv EXCEPT !.accepted = accepted]))
  /\ op' = [name |-> "CheckWatchdog", car |-> NullCar, mode |-> "NULL"]
  /\ UNCHANGED <<proc, hook, now, bootTick, shape, scenario>>

\* an explicit FFB::Shutdown()
ShutdownCall ==
  /\ proc = "running"
  /\ Leave(Shutdown(Entry))
  /\ op' = [name |-> "Shutdown", car |-> NullCar, mode |-> "NULL"]
  /\ UNCHANGED <<proc, hook, now, bootTick, shape, scenario>>

\* the loader calls DllMain(DLL_PROCESS_DETACH)
DllMainDetach ==
  /\ proc = "running"
  /\ Leave(ProcessDetach(Entry))
  /\ proc' = "detached"
  /\ op' = [name |-> "DllMainDetach", car |-> NullCar, mode |-> "NULL"]
  /\ UNCHANGED <<hook, now, bootTick, shape, scenario>>

Next ==
  \/ DllMainAttach
  \/ ClockAdvance
  \/ GamePlCar_Ctrl_Hook
  \/ WatchdogCall
  \/ ShutdownCall
  \/ DllMainDetach

Spec == Init /\ [][Next]_vars

----------------------------------------------------------------------------
(* The output-shaping stage on its own: every operand pair, not only the   *)
(* ones a short run reaches                                                *)

\* int16_t levels around the limiter step, the deadband and the type's ends
ShapeLevels ==
  { -32768, -32767, -30768, -30767, -20000, -2201, -2001, -2000, -201, -200, -1,
    0, 1, 200, 201, 1999, 2000, 2001, 2200, 20000, 30767, 30768, 32766, 32767 }

\* timer values after their decrement: idle, cooldown, last and first jolt ticks
ShapeCrashTimers == {0, 80, 81, 89}

ShapeGearTimers == {0, 5}

ShapeInit ==
  /\ proc = "unloaded"
  /\ hook = FALSE
  /\ settings = DefaultSettings
  /\ ffb = FfbInit
  /\ tel = TelInit
  /\ hw = HwInit
  /\ now \in BootTicks
  /\ bootTick = now
  /\ locals = NoLocals
  /\ op = [name |-> "start", car |-> NullCar, mode |-> "NULL"]
  /\ shape \in [stage : {"operands"}, level : ShapeLevels, prevConstantLevel : ShapeLevels,
                crashImpulseTimer : ShapeCrashTimers, gearShiftTimer : ShapeGearTimers]
  /\ scenario = NoScenario

ShapeStep ==
  /\ shape.stage = "operands"
  /\ shape' = [stage |-> "shaped",
               level |-> shape.level,
               prevConstantLevel |-> shape.prevConstantLevel,
               crashImpulseTimer |-> shape.crashImpulseTimer,
               gearShiftTimer |-> shape.gearShiftTimer,
               out |-> OutputShaping(shape.level, shape.prevConstantLevel,
                                     shape.crashImpulseTimer, shape.gearShiftTimer)]
  /\ UNCHANGED <<proc, hook, settings, ffb, tel, hw, now, bootTick, locals, op, scenario>>

ShapeNext == ShapeStep

SpecShaping == ShapeInit /\ [][ShapeNext]_vars

----------------------------------------------------------------------------
(* The conversion of totalForce to the actuator level on its own, over     *)
(* pairs of forces                                                         *)

\* totalForce every 0.1 on [-4.0, 4.0], the smallest nonzero forces, and
\* forces far beyond what the contributions can add up to
SaturationForces ==
  {k * 1000 : k \in -40..40} \cup {-120000, -100000, -50000, -1, 1, 50000, 100000, 120000}

SaturationInit ==
  /\ proc = "unloaded"
  /\ hook = FALSE
  /\ settings = DefaultSettings
  /\ ffb = FfbInit
  /\ tel = TelInit
  /\ hw = HwInit
  /\ now \in BootTicks
  /\ bootTick = now
  /\ locals = NoLocals
  /\ op = [name |-> "start", car |-> NullCar, mode |-> "NULL"]
  /\ shape \in [stage : {"forces"}, lower : SaturationForces, upper : SaturationForces]
  /\ shape.lower <= shape.upper
  /\ scenario = NoScenario

SaturationStep ==
  /\ shape.stage = "forces"
  /\ shape' = [stage |-> "levels", lower |-> shape.lower, upper |-> shape.upper,
               lowerLevel |-> LevelOf(shape.lower), upperLevel |-> LevelOf(shape.upper)]
  /\ UNCHANGED <<proc, hook, settings, ffb, tel, hw, now, bootTick, locals, op, scenario>>

SaturationNext == SaturationStep

SpecSaturation == SaturationInit /\ [][SaturationNext]_vars

----------------------------------------------------------------------------
(* The crash state machine over a whole jolt and cooldown: Update replays a *)
(* scripted drive of gameplay ticks, one snapshot per tick                  *)

\* gameplay ticks a crash script runs for: a latch, its 90 ticks, a relatch
MaxCrashTicks == 100

\* speed profiles as change points <<tick, speed>>: the car holds a speed
\* until the next change point
SpeedProfiles ==
  { << <<1, 5000>> >>,                                     \* steady 0.5
    << <<1, 5000>>, <<7, 4000>> >>,                        \* 0.5 to 0.40 in one tick
    << <<1, 5000>>, <<7, 4800>>, <<8, 4600>>, <<9, 4400>>,
       <<10, 4200>>, <<11, 4000>> >>,                      \* 0.5 to 0.40 by 0.02 a tick
    << <<1, 5000>>, <<3, 4000>> >>,                        \* a drop before the window is full
    << <<1, 5000>>, <<8, 3800>> >>,                        \* 0.12 lost: magnitude saturates
    << <<1, 5000>>, <<8, 4700>> >>,                        \* exactly 0.03 lost
    << <<1, 1200>>, <<8, 800>> >>,                         \* 0.04 lost, ending below 0.1
    << <<1, 5000>>, <<8, 4940>>, <<9, 4880>>, <<10, 4820>>, <<11, 4760>>,
       <<12, 4700>>, <<13, 4640>>, <<14, 4580>> >>,        \* braking: 0.006 lost a tick
    << <<1, 5000>>, <<7, 4000>>, <<12, 3000>>, <<30, 2000>>,
       <<98, 1100>> >> }                                   \* drops during jolt, cooldown, after it

\* ticks on which the snapshot has the contact bit (0x1000) set
FlagTickSets ==
  { {}, {1}, {8}, {1, 2, 3}, {7, 12, 40, 98}, 12..MaxCrashTicks }

\* the speed a profile gives on tick n
SpeedAt(profile, n) ==
  LET past == {k \in 1..Len(profile) : profile[k][1] <= n}
  IN profile[CHOOSE k \in past : \A j \in past : j <= k][2]

\* the snapshot of tick n of a script; lateral forces of 10 and 8 when
\* steering, of 0.1 and 0.08 when driving straight
ScriptCar(sc, n) ==
  [ptr |-> 1, speed |-> SpeedAt(sc.profile, n),
   stateFlags |-> IF n \in sc.flagTicks THEN 4096 ELSE 0, carFlags |-> 0,
   lateralForce1 |-> IF sc.steer = 0 THEN 1000 ELSE 100000,
   lateralForce2 |-> IF sc.steer = 0 THEN 800 ELSE 80000,
   curGear |-> 3, prevGearState |-> 3,
   impactForce |-> 0, steeringAngle |-> sc.steer, surf |-> <<1, 1, 1, 1>>]

CrashScripts ==
  [kind : {"crash"}, dev : {GenericWheel, RumblePad}, wall : {300, One, 2 * One},
   steer : {2000, 0, -3000}, profile : SpeedProfiles, flagTicks : FlagTickSets, n : {0}]

\* the process after attach with FFB enabled, before the first tick
CrashInit ==
  /\ scenario \in CrashScripts
  /\ proc = "running"
  /\ hook = TRUE
  /\ settings = [DefaultSettings EXCEPT !.DirectInputFFB = TRUE,
                                        !.FFBWallImpact = scenario.wall]
  /\ ffb = FfbInit
  /\ tel = TelInit
  /\ hw = HwInit
  /\ now \in BootTicks
  /\ bootTick = now
  /\ locals = NoLocals
  /\ op = [name |-> "start", car |-> NullCar, mode |-> "NULL"]
  /\ shape = NoShape

\* the game's next tick: GamePlCar_Ctrl_Hook calls Update with the script's snapshot
CrashTick ==
  /\ scenario.n < MaxCrashTicks
  /\ LET car == ScriptCar(scenario, scenario.n + 1)
         w == Update(Entry, car, "STATE_GAME", now,
                     [BaseEnv EXCEPT !.devices = <<scenario.dev>>])
     IN /\ Leave(w)
        /\ op' = [name |-> "Update", car |-> car, mode |-> "STATE_GAME"]
  /\ scenario' = [scenario EXCEPT !.n = @ + 1]
  /\ UNCHANGED <<proc, hook, now, bootTick, shape>>

CrashNext == CrashTick

SpecCrash == CrashInit /\ [][CrashNext]_vars

----------------------------------------------------------------------------
(* The gear-shift kick: Update replays a scripted sequence of gears, one    *)
(* snapshot per gameplay tick                                               *)

\* gameplay ticks a gear script runs for: a kick, its 6 ticks, a second kick
MaxGearTicks == 16

\* gear scripts as change points <<tick, gear>>
GearScripts ==
  { << <<1, 3>> >>,                                        \* no shift
    << <<1, 2>>, <<3, 3>> >>,                              \* one upshift
    << <<1, 3>>, <<3, 2>> >>,                              \* one downshift
    << <<1, 2>>, <<3, 3>>, <<5, 4>> >>,                    \* a second upshift during the kick
    << <<1, 2>>, <<3, 3>>, <<4, 2>> >>,                    \* up, then down during the kick
    << <<1, 2>>, <<3, 3>>, <<9, 4>> >>,                    \* a second shift on the tick after the kick
    << <<1, 0>>, <<3, 1>>, <<10, 0>>, <<12, 1>> >>,        \* out of and into neutral
    << <<1, 1>>, <<2, 2>>, <<3, 3>>, <<4, 4>>, <<5, 5>>, <<6, 4>>, <<7, 3>>,
       <<8, 2>>, <<9, 1>>, <<10, 2>>, <<11, 3>> >> }       \* a shift on every tick

\* the gear a script gives on tick n
GearAt(script, n) == SpeedAt(script, n)

\* the snapshot of tick n of a gear script: steady driving on the road
GearCar(sc, n) ==
  [ptr |-> 1, speed |-> 6000, stateFlags |-> 0, carFlags |-> 0,
   lateralForce1 |-> 100000, lateralForce2 |-> 80000,
   curGear |-> GearAt(sc.gears, n),
   prevGearState |-> IF n > 1 THEN GearAt(sc.gears, n - 1) ELSE 0,
   impactForce |-> 0, steeringAngle |-> 2000, surf |-> <<1, 1, 1, 1>>]

GearRuns ==
  [kind : {"gear"}, dev : {GenericWheel, RumblePad}, gain : {0, 3000, One, 2 * One},
   gears : GearScripts, n : {0}]

\* the process after attach with FFB enabled, before the first tick
GearInit ==
  /\ scenario \in GearRuns
  /\ proc = "running"
  /\ hook = TRUE
  /\ settings = [DefaultSettings EXCEPT !.DirectInputFFB = TRUE,
                                        !.FFBGearShift = scenario.gain]
  /\ ffb = FfbInit
  /\ tel = TelInit
  /\ hw = HwInit
  /\ now \in BootTicks
  /\ bootTick = now
  /\ locals = NoLocals
  /\ op = [name |-> "start", car |-> NullCar, mode |-> "NULL"]
  /\ shape = NoShape

\* the game's next tick: GamePlCar_Ctrl_Hook calls Update with the script's snapshot
GearTick ==
  /\ scenario.n < MaxGearTicks
  /\ LET car == GearCar(scenario, scenario.n + 1)
         w == Update(Entry, car, "STATE_GAME", now,
                     [BaseEnv EXCEPT !.devices = <<scenario.dev>>])
     IN /\ Leave(w)
        /\ op' = [name |-> "Update", car |-> car, mode |-> "STATE_GAME"]
  /\ scenario' = [scenario EXCEPT !.n = @ + 1]
  /\ UNCHANGED <<proc, hook, now, bootTick, shape>>

GearNext == GearTick

SpecGear == GearInit /\ [][GearNext]_vars

----------------------------------------------------------------------------
(* The three oscillators: Update replays scripted drives in which speed,    *)
(* road surface and lateral force change independently of each other        *)

\* gameplay ticks an oscillator script runs for: the slip oscillator is back
\* at phase 0 after 30 ticks
MaxOscTicks == 34

\* speeds as change points <<tick, speed>>: 0.02 is below every threshold,
\* 0.08 above the rumble threshold only, 0.12 above the slip threshold and
\* still below the idle threshold, 0.5 above all three
OscSpeeds ==
  { << <<1, 5000>> >>,
    << <<1, 1200>> >>,
    << <<1, 200>>, <<4, 800>>, <<7, 1200>>, <<12, 5000>>, <<20, 1200>>, <<23, 200>> >>,
    << <<1, 800>>, <<2, 5000>>, <<3, 800>>, <<5, 5000>>, <<6, 200>>, <<9, 1500>>,
       <<10, 1499>>, <<11, 500>>, <<12, 501>>, <<13, 1000>>, <<14, 1001>> >> }

\* ticks on which a wheel is off the road
OscOffRoadTicks == { {}, 1..MaxOscTicks, 3..8 \cup 10..11 \cup {13} \cup 20..34 }

\* lateral force of each axle as change points <<tick, force>>
OscLaterals ==
  { << <<1, 0>> >>,
    << <<1, 80000>> >>,
    << <<1, 0>>, <<3, 80000>>, <<11, 0>>, <<16, -80000>>, <<24, 0>>, <<27, 80000>> >> }

\* the snapshot of tick n of an oscillator script
OscCar(sc, n) ==
  [ptr |-> 1, speed |-> SpeedAt(sc.speeds, n), stateFlags |-> 0, carFlags |-> 0,
   lateralForce1 |-> SpeedAt(sc.laterals, n), lateralForce2 |-> SpeedAt(sc.laterals, n),
   curGear |-> 3, prevGearState |-> 3, impactForce |-> 0, steeringAngle |-> 0,
   surf |-> IF n \in sc.offRoad THEN <<1, 2, 1, 1>> ELSE <<1, 1, 1, 1>>]

OscRuns ==
  [kind : {"oscillators"}, dev : {GenericWheel, RumblePad}, rumble : {0, One},
   speeds : OscSpeeds, offRoad : OscOffRoadTicks, laterals : OscLaterals, n : {0}]

\* the process after attach with FFB enabled, before the first tick
OscInit ==
  /\ scenario \in OscRuns
  /\ proc = "running"
  /\ hook = TRUE
  /\ settings = [DefaultSettings EXCEPT !.DirectInputFFB = TRUE,
                                        !.FFBRumbleStrip = scenario.rumble]
  /\ ffb = FfbInit
  /\ tel = TelInit
  /\ hw = HwInit
  /\ now \in BootTicks
  /\ bootTick = now
  /\ locals = NoLocals
  /\ op = [name |-> "start", car |-> NullCar, mode |-> "NULL"]
  /\ shape = NoShape

\* the game's next tick: GamePlCar_Ctrl_Hook calls Update with the script's snapshot
OscTick ==
  /\ scenario.n < MaxOscTicks
  /\ \E car \in {OscCar(scenario, scenario.n + 1)} :
     \E w \in {Update(Entry, car, "STATE_GAME", now,
                      [BaseEnv EXCEPT !.devices = <<scenario.dev>>])} :
        /\ Leave(w)
        /\ op' = [name |-> "Update", car |-> car, mode |-> "STATE_GAME"]
  /\ scenario' = [scenario EXCEPT !.n = @ + 1]
  /\ UNCHANGED <<proc, hook, now, bootTick, shape>>

OscNext == OscTick

SpecOscillators == OscInit /\ [][OscNext]_vars

----------------------------------------------------------------------------
(* The wheel profile resolver on its own: DetectWheelTorque applied to      *)
(* device names a driver may report                                         *)

ToUpperChar(c) == IF c >= 97 /\ c <= 122 THEN c - 32 ELSE c

ToUpper(s) == [i \in 1..Len(s) |-> ToUpperChar(s[i])]

\* a name as reported, in lower case and in upper case
Cased(s) == {s, ToLower(s), ToUpper(s)}

\* "USB "
UsbPrefix == <<85,83,66,32>>

\* " Wheel Base"
BaseSuffix == <<32,87,104,101,101,108,32,66,97,115,101>>

\* names that are, or embed, one fragment of the table
SingleNames ==
  UNION { Cased(KnownWheels[i].nameSubstring)
            \cup Cased(UsbPrefix \o KnownWheels[i].nameSubstring \o BaseSuffix)
          : i \in 1..Len(KnownWheels) }

\* names embedding two fragments of the table, as a hub or an adapter reports
CompoundNames ==
  { KnownWheels[i].nameSubstring \o <<32>> \o ToLower(KnownWheels[j].nameSubstring)
    : i \in 1..Len(KnownWheels), j \in 1..Len(KnownWheels) }

\* no name, the empty name, "(unknown)", names of no known wheel ("Fanatec DD")
OtherNames ==
  { NullName, <<>>, UnknownName, GenericWheel.name, <<70,97,110,97,116,101,99,32,68,68>> }

ProbeNames == SingleNames \cup CompoundNames \cup OtherNames

DetectInit ==
  /\ scenario \in [kind : {"detect"}, stage : {"asked"}, name : ProbeNames]
  /\ proc = "running"
  /\ hook = TRUE
  /\ settings = [DefaultSettings EXCEPT !.DirectInputFFB = TRUE]
  /\ ffb = FfbInit
  /\ tel = TelInit
  /\ hw = HwInit
  /\ now \in BootTicks
  /\ bootTick = now
  /\ locals = NoLocals
  /\ op = [name |-> "start", car |-> NullCar, mode |-> "NULL"]
  /\ shape = NoShape

\* DetectWheelTorque(name) returns
DetectStep ==
  /\ scenario.stage = "asked"
  /\ scenario' = [kind |-> "detect", stage |-> "answered", name |-> scenario.name,
                  torque |-> DetectWheelTorque(scenario.name)]
  /\ UNCHANGED <<proc, hook, settings, ffb, tel, hw, now, bootTick, locals, op, shape>>

DetectNext == DetectStep

SpecDetect == DetectInit /\ [][DetectNext]_vars

----------------------------------------------------------------------------
(* Device initialization over the settings and the devices it depends on:   *)
(* the first gameplay tick of a process, which runs DeferredInit            *)

\* FFBWheelTorqueNm as Settings::read leaves it (clamped to 0..100): auto,
\* below, at and just above the reference, a mid rating, the maximum
TorqueOverrides == {0, 10000, 22000, 22001, 50000, 1000000}

\* "Logitech G29 Racing Wheel": rated exactly the reference
ReferenceWheel ==
  [name |-> <<76,111,103,105,116,101,99,104,32,71,50,57,32,82,97,99,105,110,103,32,
              87,104,101,101,108>>,
   features |-> {"CONSTANT", "GAIN", "AUTOCENTER"}]

\* "MOZA R3 Base": rated 3.9
SmallDirectDriveWheel ==
  [name |-> <<77,79,90,65,32,82,51,32,66,97,115,101>>,
   features |-> {"CONSTANT", "SPRING", "DAMPER", "GAIN"}]

\* what SDL_GetHaptics enumerates
DeviceLists ==
  { <<GenericWheel>>, <<DirectDriveWheel>>, <<RumblePad>>, <<ReferenceWheel>>,
    <<SmallDirectDriveWheel>>, <<GenericWheel, DirectDriveWheel>>, << >> }

\* answers of the haptic subsystem during initialization
InitAnswers ==
  { [sdlInitOk |-> TRUE, openOk |-> TRUE, createOk |-> TRUE],
    [sdlInitOk |-> TRUE, openOk |-> TRUE, createOk |-> FALSE],
    [sdlInitOk |-> TRUE, openOk |-> FALSE, createOk |-> TRUE],
    [sdlInitOk |-> FALSE, openOk |-> TRUE, createOk |-> TRUE] }

InitScripts ==
  [kind : {"init"}, stage : {"attached"}, override : TorqueOverrides, index : {-1, 1},
   devices : DeviceLists, answers : InitAnswers]

\* the process after attach with FFB enabled, before the first tick
InitInit ==
  /\ scenario \in InitScripts
  /\ proc = "running"
  /\ hook = TRUE
  /\ settings = [DefaultSettings EXCEPT !.DirectInputFFB = TRUE,
                                        !.FFBWheelTorqueNm = scenario.override,
                                        !.FFBDevice = scenario.index]
  /\ ffb = FfbInit
  /\ tel = TelInit
  /\ hw = HwInit
  /\ now \in BootTicks
  /\ bootTick = now
  /\ locals = NoLocals
  /\ op = [name |-> "start", car |-> NullCar, mode |-> "NULL"]
  /\ shape = NoShape

\* the first gameplay tick: Update runs DeferredInit
InitTick ==
  /\ scenario.stage = "attached"
  /\ LET w == Update(Entry, CruiseCar, "STATE_GAME", now,
                     [BaseEnv EXCEPT !.devices = scenario.devices,
                                     !.sdlInitOk = scenario.answers.sdlInitOk,
                                     !.openOk = scenario.answers.openOk,
                                     !.createOk = scenario.answers.createOk])
     IN /\ Leave(w)
        /\ op' = [name |-> "Update", car |-> CruiseCar, mode |-> "STATE_GAME"]
  /\ scenario' = [scenario EXCEPT !.stage = "ticked"]
  /\ UNCHANGED <<proc, hook, now, bootTick, shape>>

InitNext == InitTick

SpecInit == InitInit /\ [][InitNext]_vars

----------------------------------------------------------------------------
(* The telemetry exporter over its settings: a few calls of Update and     *)
(* Shutdown, from a fresh process and from one that has published          *)
(* 2^32 - 2 records                                                         *)

\* entry points called in one run
MaxTelemetryCalls == 4

\* packetId two short of its wrap
AgedPacketId == <<65535, 65534>>

\* namespace Telemetry after AgedPacketId writes, the last one on the grid
AgedTel ==
  LET w0 == [settings |-> [DefaultSettings EXCEPT !.TelemetryEnabled = TRUE],
             ffb |-> FfbInit,
             tel |-> [TelInit EXCEPT !.packetId = DwSub(AgedPacketId, <<0, 1>>)],
             hw |-> HwInit, locals |-> NoLocals]
      w1 == TelemetryInit(w0, "ok")
  IN TelemetryWrite(w1, IdleCar, TRUE, "STATE_GAME", BaseEnv).tel

\* [DirectInputFFB, TelemetryEnabled, aged]
TelemetryStarts ==
  { <<FALSE, FALSE, FALSE>>, <<TRUE, FALSE, FALSE>>, <<FALSE, TRUE, FALSE>>,
    <<TRUE, TRUE, FALSE>>, <<FALSE, TRUE, TRUE>> }

TelemetryCalls ==
  { Call(NullCar, "STATE_GAME", BaseEnv),
    Call(CruiseCar, "STATE_GAME", BaseEnv),
    Call(CrashCar, "STATE_GAME", [BaseEnv EXCEPT !.VibrationLeftMotor = 5000]),
    Call(CruiseCar, "STATE_MENU", BaseEnv),
    Call(IdleCar, "NULL", BaseEnv),
    Call(CruiseCar, "STATE_GAME", [BaseEnv EXCEPT !.devices = <<>>]),
    Call(CruiseCar, "STATE_GAME", [BaseEnv EXCEPT !.shm = "CreateFileMapping failed"]),
    Call(IdleCar, "STATE_GAME", [BaseEnv EXCEPT !.shm = "MapViewOfFile failed"]) }

TelemetryStartInit ==
  /\ now \in BootTicks
  /\ bootTick = now
  /\ \E s \in TelemetryStarts :
       /\ settings = [DefaultSettings EXCEPT !.DirectInputFFB = s[1],
                                             !.TelemetryEnabled = s[2]]
       /\ tel = IF s[3] THEN AgedTel ELSE TelInit
       /\ ffb = IF s[3] THEN [FfbInit EXCEPT !.lastUpdateTick = now] ELSE FfbInit
       /\ scenario = [kind |-> "telemetry", n |-> 0,
                      lastPublished |-> IF s[3] THEN AgedTel.data.packetId ELSE DwZero]
  /\ proc = "running"
  /\ hook = TRUE
  /\ hw = HwInit
  /\ locals = NoLocals
  /\ op = [name |-> "start", car |-> NullCar, mode |-> "NULL"]
  /\ shape = NoShape

\* the hook calls FFB::Update; a reader of the segment notes the id it sees
\* whenever the record was rewritten
TelemetryUpdate ==
  /\ scenario.n < MaxTelemetryCalls
  /\ \E c \in TelemetryCalls :
       LET w == Update(Entry, c.car, c.mode, now, c.env)
       IN /\ Leave(w)
          /\ op' = [name |-> "Update", car |-> c.car, mode |-> c.mode]
          /\ scenario' = [scenario EXCEPT
                            !.n = @ + 1,
                            !.lastPublished = IF w.tel.pData /\ w.tel.packetId # tel.packetId
                                              THEN w.tel.data.packetId ELSE @]
  /\ UNCHANGED <<proc, hook, now, bootTick, shape>>

\* FFB::Shutdown(), which closes the segment
TelemetryShutdownCall ==
  /\ scenario.n < MaxTelemetryCalls
  /\ Leave(Shutdown(Entry))
  /\ op' = [name |-> "Shutdown", car |-> NullCar, mode |-> "NULL"]
  /\ scenario' = [scenario EXCEPT !.n = @ + 1]
  /\ UNCHANGED <<proc, hook, now, bootTick, shape>>

TelemetryNext ==
  \/ TelemetryUpdate
  \/ TelemetryShutdownCall

SpecTelemetry == TelemetryStartInit /\ [][TelemetryNext]_vars

----------------------------------------------------------------------------
(* CheckWatchdog and Update on two threads: the statements of each that    *)
(* touch the shared statics, one at a time.  Nothing in the source orders  *)
(* the two, so every interleaving of the statements is a run.              *)

\* calls each thread makes in one run
MaxRaceRounds == 2

\* the device Ready after one gameplay tick with the given snapshot
ReadyWorld(car, tick) ==
  Update([settings |-> [DefaultSettings EXCEPT !.DirectInputFFB = TRUE],
          ffb |-> FfbInit, tel |-> TelInit, hw |-> HwInit, locals |-> NoLocals],
         car, "STATE_GAME", tick, BaseEnv)

RaceCalls ==
  { Call(CruiseCar, "STATE_GAME", BaseEnv),
    Call(CrashCar, "STATE_GAME", BaseEnv),
    Call(IdleCar, "STATE_GAME", BaseEnv),
    Call(CruiseCar, "STATE_MENU", BaseEnv) }

\* the statics Update assigns after SDL_UpdateHapticEffect has returned
AfterSend(mode) ==
  IF IsInGameplay(mode)
  THEN {"prevConstantLevel", "lastDiagTime", "prevGear", "prevCollisionFlags", "prevSpeed"}
  ELSE {"prevConstantLevel", "smoothedLateral", "crashImpulseTimer"}

\* f with the fields named in fields taken from g
Assign(f, g, fields) == [k \in DOMAIN f |-> IF k \in fields THEN g[k] ELSE f[k]]

RaceInit ==
  /\ bootTick \in BootTicks
  /\ \E first \in {CruiseCar, CrashCar}, gap \in {250, 260} :
       \E w \in {ReadyWorld(first, bootTick)} :
          /\ settings = w.settings
          /\ ffb = w.ffb
          /\ tel = w.tel
          /\ hw = [w.hw EXCEPT !.calls = <<>>]
          /\ now = DwAdd(bootTick, gap)
  /\ proc = "running"
  /\ hook = TRUE
  /\ locals = NoLocals
  /\ op = [name |-> "start", car |-> NullCar, mode |-> "NULL"]
  /\ shape = NoShape
  /\ scenario = [kind |-> "race", upd |-> "idle", wd |-> "idle",
                 updRounds |-> 0, wdRounds |-> 0,
                 call |-> Call(NullCar, "NULL", BaseEnv), after |-> FfbInit]

\* Update, line 418: lastUpdateTick = GetTickCount()
UpdateStamps ==
  /\ scenario.upd = "idle"
  /\ scenario.updRounds < MaxRaceRounds
  /\ \E c \in RaceCalls :
       scenario' = [scenario EXCEPT !.upd = "stamped", !.call = c, !.updRounds = @ + 1]
  /\ ffb' = [ffb EXCEPT !.lastUpdateTick = now]
  /\ hw' = [hw EXCEPT !.calls = <<>>]
  /\ op' = [name |-> "Update:stamp", car |-> NullCar, mode |-> "NULL"]
  /\ UNCHANGED <<proc, hook, settings, tel, now, bootTick, locals, shape>>

\* Update from there through SDL_UpdateHapticEffect, if it sends
UpdateSends ==
  /\ scenario.upd = "stamped"
  /\ \E c \in {scenario.call} :
     \E w \in {Update(Entry, c.car, c.mode, now, c.env)} :
     \E sent \in {\E i \in DOMAIN w.hw.calls : w.hw.calls[i].fn = "SDL_UpdateHapticEffect"} :
        /\ settings' = w.settings
        /\ tel' = w.tel
        /\ hw' = w.hw
        /\ locals' = w.locals
        /\ ffb' = IF sent THEN Assign(w.ffb, ffb, AfterSend(c.mode)) ELSE w.ffb
        /\ scenario' = [scenario EXCEPT !.upd = IF sent THEN "sent" ELSE "idle",
                                        !.after = w.ffb]
        /\ op' = [name |-> "Update:send", car |-> c.car, mode |-> c.mode]
  /\ UNCHANGED <<proc, hook, now, bootTick, shape>>

\* Update after the call: prevConstantLevel = level and what follows it
UpdateStores ==
  /\ scenario.upd = "sent"
  /\ ffb' = Assign(ffb, scenario.after, AfterSend(scenario.call.mode))
  /\ scenario' = [scenario EXCEPT !.upd = "idle"]
  /\ hw' = [hw EXCEPT !.calls = <<>>]
  /\ op' = [name |-> "Update:store", car |-> NullCar, mode |-> "NULL"]
  /\ UNCHANGED <<proc, hook, settings, tel, now, bootTick, locals, shape>>

\* CheckWatchdog, lines 389-396: the two tests
WatchdogTests ==
  /\ scenario.wd = "idle"
  /\ scenario.wdRounds < MaxRaceRounds
  /\ LET ready == ffb.initialized /\ ffb.hapticDevice # NullDevice /\ ffb.constantEffectId >= 0
     IN scenario' = [scenario EXCEPT
                       !.wd = IF ready /\ WatchdogDue(ffb, now) THEN "due" ELSE "idle",
                       !.wdRounds = @ + 1]
  /\ hw' = [hw EXCEPT !.calls = <<>>]
  /\ op' = [name |-> "CheckWatchdog:test", car |-> NullCar, mode |-> "NULL"]
  /\ UNCHANGED <<proc, hook, settings, ffb, tel, now, bootTick, locals, shape>>

\* CheckWatchdog, line 405: SDL_UpdateHapticEffect with level 0
WatchdogSends ==
  /\ scenario.wd = "due"
  /\ hw' = SDL_UpdateHapticEffect(Entry, ffb.constantEffectId, 0, TRUE).hw
  /\ scenario' = [scenario EXCEPT !.wd = "sent"]
  /\ op' = [name |-> "CheckWatchdog:send", car |-> NullCar, mode |-> "NULL"]
  /\ UNCHANGED <<proc, hook, settings, ffb, tel, now, bootTick, locals, shape>>

\* CheckWatchdog, lines 406-408
WatchdogStores ==
  /\ scenario.wd = "sent"
  /\ ffb' = [ffb EXCEPT !.prevConstantLevel = 0,
                        !.smoothedLateral = 0,
                        !.crashImpulseTimer = 0]
  /\ scenario' = [scenario EXCEPT !.wd = "idle"]
  /\ hw' = [hw EXCEPT !.calls = <<>>]
  /\ op' = [name |-> "CheckWatchdog:store", car |-> NullCar, mode |-> "NULL"]
  /\ UNCHANGED <<proc, hook, settings, tel, now, bootTick, locals, shape>>

RaceNext ==
  \/ UpdateStamps
  \/ UpdateSends
  \/ UpdateStores
  \/ WatchdogTests
  \/ WatchdogSends
  \/ WatchdogStores

SpecRace == RaceInit /\ [][RaceNext]_vars

----------------------------------------------------------------------------
(* The H-pattern shifter of hooks_inputremap.cpp: SwitchOn_dest polls the   *)
(* devices once per frame and builds the edge mask on every call            *)

\* the forward gears and reverse in the order UpdateHPattern tests them
GearOrder == <<1, 2, 3, 4, 5, 6, -1>>

\* "static HPatternState hpattern"
HPatternInit == [targetGear |-> 0, shiftCooldown |-> FALSE]

\* Settings::DIShifterButtonGear1..6 and ..GearReverse as a function of the
\* gear; -1 is the default, an unassigned button
ShifterBindings ==
  { [g \in {1, 2, 3, 4, 5, 6, -1} |-> IF g = -1 THEN 6 ELSE g - 1],
    [g \in {1, 2, 3, 4, 5, 6, -1} |-> IF g = 2 THEN -1 ELSE IF g = -1 THEN 6 ELSE g - 1] }

\* buttons of the shifter device found down by a poll
ButtonStates == { {}, {0}, {1}, {2}, {3}, {5}, {6}, {0, 1}, {1, 6}, {7} }

\* the lambda isPressed of UpdateHPattern
IsPressed(buttons, btn) == btn >= 0 /\ btn < 128 /\ btn \in buttons

\* DInputRemap::UpdateHPattern
UpdateHPattern(h, cfg, buttons) ==
  IF cfg.DIShifterGearMode # "hpattern" \/ ~cfg.shifterDevice THEN h
  ELSE LET down == {k \in DOMAIN GearOrder : IsPressed(buttons, cfg.binding[GearOrder[k]])}
           target == IF down = {} THEN 0
                     ELSE GearOrder[CHOOSE k \in down : \A j \in down : k <= j]
       IN [h EXCEPT !.targetGear = target]

\* the H-pattern block emitting while the cooldown is set
BuildSwitchOnMaskNoCooldown(h, cfg, inGame, car, edges) ==
  IF cfg.DIShifterGearMode = "hpattern" /\ h.targetGear # 0 /\ inGame /\ car.ptr # 0
  THEN IF h.targetGear > car.curGear
       THEN [hpattern |-> [h EXCEPT !.shiftCooldown = TRUE],
             synthetic |-> {"GearUp"}, mask |-> edges \cup {"GearUp"}]
       ELSE IF h.targetGear < car.curGear
       THEN [hpattern |-> [h EXCEPT !.shiftCooldown = TRUE],
             synthetic |-> {"GearDown"}, mask |-> edges \cup {"GearDown"}]
       ELSE [hpattern |-> [h EXCEPT !.shiftCooldown = FALSE],
             synthetic |-> {}, mask |-> edges]
  ELSE [hpattern |-> h, synthetic |-> {}, mask |-> edges]

\* DInputRemap::BuildSwitchOnMask: edges are the button, POV and keyboard
\* edges of the call, synthetic the bits the H-pattern block adds to them
BuildSwitchOnMask(h, cfg, inGame, car, edges) ==
  IF cfg.DIShifterGearMode = "hpattern" /\ h.targetGear # 0 /\ inGame /\ car.ptr # 0
  THEN IF h.targetGear > car.curGear /\ ~h.shiftCooldown
       THEN [hpattern |-> [h EXCEPT !.shiftCooldown = TRUE],
             synthetic |-> {"GearUp"}, mask |-> edges \cup {"GearUp"}]
       ELSE IF h.targetGear < car.curGear /\ ~h.shiftCooldown
       THEN [hpattern |-> [h EXCEPT !.shiftCooldown = TRUE],
             synthetic |-> {"GearDown"}, mask |-> edges \cup {"GearDown"}]
       ELSE [hpattern |-> [h EXCEPT !.shiftCooldown = FALSE],
             synthetic |-> {}, mask |-> edges]
  ELSE [hpattern |-> h, synthetic |-> {}, mask |-> edges]

\* Game::pl_car() during a call: no car, or the car in one of its gears
ShifterCars == {NullCar} \cup [ptr : {1}, curGear : 0..6]

\* button edges of a call that are not the shifter's doing
ShifterEdges == { {}, {"GearUp"}, {"Start"} }

HPatternInitial ==
  /\ proc = "running"
  /\ hook = TRUE
  /\ settings = DefaultSettings
  /\ ffb = FfbInit
  /\ tel = TelInit
  /\ hw = HwInit
  /\ now \in BootTicks
  /\ bootTick = now
  /\ locals = NoLocals
  /\ op = [name |-> "start", car |-> NullCar, mode |-> "NULL"]
  /\ shape = NoShape
  /\ scenario \in [kind : {"hpattern"},
                    cfg : [DIShifterGearMode : {"hpattern", "sequential"},
                           shifterDevice : BOOLEAN, binding : ShifterBindings],
                    hpattern : {HPatternInit}, inGame : {FALSE},
                    synthetic : {{}}, mask : {{}}]

\* SwitchOn_dest with the remapper initialized: Poll, which reads the devices
\* on the first call of a frame, then BuildSwitchOnMask
SwitchOn_dest ==
  /\ \E newFrame \in BOOLEAN, buttons \in ButtonStates, inGame \in BOOLEAN,
        car \in ShifterCars, edges \in ShifterEdges :
       \E h \in {IF newFrame THEN UpdateHPattern(scenario.hpattern, scenario.cfg, buttons)
                  ELSE scenario.hpattern} :
       \E r \in {BuildSwitchOnMask(h, scenario.cfg, inGame, car, edges)} :
          /\ scenario' = [scenario EXCEPT !.hpattern = r.hpattern, !.inGame = inGame,
                                          !.synthetic = r.synthetic, !.mask = r.mask]
          /\ op' = [name |-> "SwitchOn", car |-> car, mode |-> "NULL"]
  /\ UNCHANGED <<proc, hook, settings, ffb, tel, hw, now, bootTick, locals, shape>>

HPatternNext == SwitchOn_dest

SpecHPattern == HPatternInitial /\ [][HPatternNext]_vars

----------------------------------------------------------------------------
(* Vocabulary of the properties *)

\* functions of the haptic subsystem
HapticFns ==
  {"SDL_Init", "SDL_GetHaptics", "SDL_OpenHaptic", "SDL_SetHapticAutocenter",
   "SDL_SetHapticGain", "SDL_CreateHapticEffect", "SDL_RunHapticEffect",
   "SDL_UpdateHapticEffect", "SDL_StopHapticEffects", "SDL_DestroyHapticEffect",
   "SDL_CloseHaptic"}

\* positions in a call log of calls into the haptic subsystem
HapticIn(cs) == {i \in DOMAIN cs : cs[i].fn \in HapticFns}

\* positions of calls of one function
CallsOf(cs, fn) == {i \in DOMAIN cs : cs[i].fn = fn}

\* the game modes the specification calls active driving
ActiveDriving ==
  {"STATE_GAME", "STATE_START", "STATE_GOAL", "STATE_TIMEUP", "STATE_SMPAUSEMENU"}

\* the device manager is Ready with a constant-force effect
ReadyWithEffect(f) ==
  f.initialized /\ f.hapticDevice # NullDevice /\ f.constantEffectId >= 0

\* the last step was Update with a snapshot
TickProcessed(o) == o.name = "Update" /\ o.car.ptr # 0

\* the call log is exactly one zero-level update of the constant-force effect
ZeroCommand(cs, id) ==
  /\ Len(cs) = 1
  /\ cs[1].fn = "SDL_UpdateHapticEffect"
  /\ cs[1].id = id
  /\ cs[1].level = 0

\* every effect id is unset
NoEffectIds(f) ==
  /\ f.springEffectId = -1
  /\ f.damperEffectId = -1
  /\ f.constantEffectId = -1
  /\ f.sineEffectId = -1
  /\ f.frictionEffectId = -1

\* the device state apart from the per-step call log
Device(h) == [h EXCEPT !.calls = <<>>]

----------------------------------------------------------------------------
(* C1..C10 *)

\* C1: CheckWatchdog, called with the device Ready and a constant-force effect,
\* issues the zero-level update if and only if more than 250 ms have passed
\* since the last Update with a snapshot and the last sent level is nonzero.
\* (Stated as claimed; the code also requires lastUpdateTick > 0.)
C1_WatchdogFiresIffStale ==
  [][ (op'.name = "CheckWatchdog" /\ ReadyWithEffect(ffb))
        => ( ZeroCommand(hw'.calls, ffb.constantEffectId)
               <=> (DwGt(DwSub(now, ffb.lastUpdateTick), 250) /\ ffb.prevConstantLevel # 0) )
    ]_vars

\* C2: Shutdown on a device that is not initialized (never initialized, failed
\* or already shut down) makes no haptic call and changes no FFB or device
\* state; in every case it leaves the handle null, initialized false, every
\* effect id -1 and the device closed.
C2_ShutdownIdempotent ==
  [][ op'.name = "Shutdown"
        => /\ (~ffb.initialized
                 => /\ HapticIn(hw'.calls) = {}
                    /\ ffb' = ffb
                    /\ Device(hw') = Device(hw))
           /\ ffb'.hapticDevice = NullDevice
           /\ ~ffb'.initialized
           /\ NoEffectIds(ffb')
           /\ ~hw'.open
    ]_vars

\* a Shutdown that closed a Ready device
C2_Witness ==
  /\ op.name = "Shutdown"
  /\ CallsOf(hw.calls, "SDL_CloseHaptic") # {}
  /\ hw.opens = 1

\* C3: process detach runs FFB::Shutdown and then the proxy detach; for a Ready
\* device the haptic calls are: stop all effects, destroy each existing effect
\* once, close the device, in this order, and nothing is left running.
C3_DetachStopsDestroysCloses ==
  [][ op'.name = "DllMainDetach"
        => LET cs == hw'.calls
               hap == HapticIn(cs)
           IN /\ cs[1].fn = "spdlog::info Telemetry: Shared memory closed"
              /\ cs[Len(cs)].fn = "proxy::on_detach"
              /\ hw'.running = {}
              /\ ~hw'.open
              /\ (ffb.initialized
                    => /\ Cardinality(CallsOf(cs, "SDL_StopHapticEffects")) = 1
                       /\ Cardinality(CallsOf(cs, "SDL_CloseHaptic")) = 1
                       /\ \A e \in hw.effects :
                            Cardinality({i \in CallsOf(cs, "SDL_DestroyHapticEffect") :
                                           cs[i].id = e}) = 1
                       /\ \A i \in CallsOf(cs, "SDL_DestroyHapticEffect") : cs[i].id \in hw.effects
                       /\ \A i \in hap :
                            /\ cs[i].fn \in {"SDL_StopHapticEffects", "SDL_DestroyHapticEffect",
                                             "SDL_CloseHaptic"}
                            /\ (cs[i].fn = "SDL_StopHapticEffects" => \A j \in hap : i <= j)
                            /\ (cs[i].fn = "SDL_CloseHaptic" => \A j \in hap : j <= i)
                       /\ hw'.effects = {})
    ]_vars

\* a detach that destroyed the constant-force effect of a Ready device
C3_Witness ==
  /\ op.name = "DllMainDetach"
  /\ CallsOf(hw.calls, "SDL_DestroyHapticEffect") # {}
  /\ proc = "detached"

\* C4: the initialization sequence runs at most once per process; once it has
\* been attempted and the device is not initialized (it failed, or the device
\* was shut down), an Update makes no haptic call and does not initialize.
C4_InitAtMostOnce ==
  /\ [](hw.sdlInits <= 1 /\ hw.opens <= 1 /\ hw.created <= 1)
  /\ [][ (op'.name = "Update" /\ ffb.initAttempted /\ ~ffb.initialized)
           => /\ HapticIn(hw'.calls) = {}
              /\ Device(hw') = Device(hw)
              /\ ~ffb'.initialized
              /\ ffb'.hapticDevice = NullDevice
       ]_vars

\* an Update with a snapshot, FFB enabled, after the one attempt failed
C4_Witness ==
  /\ TickProcessed(op)
  /\ settings.DirectInputFFB
  /\ hw.sdlInits = 1
  /\ hw.opens = 0
  /\ hw.calls = <<>>

\* C5: process attach makes no haptic call and does not attempt
\* initialization; initialization is attempted only by an Update with a
\* snapshot and FFB enabled, by the first such Update, and the process is
\* running (attach has returned) whenever a haptic call is made.
C5_InitDeferredToUpdate ==
  /\ [](op.name = "DllMainAttach" => (~ffb.initAttempted /\ HapticIn(hw.calls) = {}))
  /\ [](HapticIn(hw.calls) # {} => proc # "unloaded")
  /\ [][ (ffb'.initAttempted /\ ~ffb.initAttempted)
           => (TickProcessed(op') /\ settings.DirectInputFFB /\ proc = "running")
       ]_vars
  /\ [][ (TickProcessed(op') /\ settings.DirectInputFFB /\ ~ffb.initAttempted)
           => (ffb'.initAttempted /\ hw'.sdlInits = 1)
       ]_vars

\* the Update that ran the initialization sequence
C5_Witness ==
  /\ TickProcessed(op)
  /\ CallsOf(hw.calls, "SDL_Init") # {}
  /\ ffb.initialized

\* C6: a tick processed outside active driving with the device Ready runs no
\* synthesis step, and issues a zero-level update exactly when the last sent
\* level was nonzero; afterwards the last sent level is 0.
C6_NonGameplayZeroOnce ==
  [][ (TickProcessed(op') /\ op'.mode \notin ActiveDriving /\ ffb'.initialized)
        => /\ ~locals'.ran
           /\ ffb'.updateCounter = ffb.updateCounter
           /\ ffb'.speedHistory = ffb.speedHistory
           /\ ffb'.speedHistoryIdx = ffb.speedHistoryIdx
           /\ ffb'.gearShiftTimer = ffb.gearShiftTimer
           /\ ffb'.crashImpulseForce = ffb.crashImpulseForce
           /\ ffb'.prevGear = ffb.prevGear
           /\ ffb'.prevCollisionFlags = ffb.prevCollisionFlags
           /\ ffb'.prevSpeed = ffb.prevSpeed
           /\ ffb'.rumblePhase = ffb.rumblePhase
           /\ ffb'.slipPhase = ffb.slipPhase
           /\ ffb'.enginePhase = ffb.enginePhase
           /\ ffb'.smoothedLateral \in {ffb.smoothedLateral, 0}
           /\ ffb'.crashImpulseTimer \in {ffb.crashImpulseTimer, 0}
           /\ (ffb.prevConstantLevel # 0
                 => ZeroCommand(hw'.calls, ffb.constantEffectId))
           /\ (ffb.prevConstantLevel = 0
                 => CallsOf(hw'.calls, "SDL_UpdateHapticEffect") = {})
           /\ ffb'.prevConstantLevel = 0
    ]_vars

\* a tick outside gameplay that sent the zero command
C6_Witness ==
  /\ TickProcessed(op)
  /\ op.mode \notin ActiveDriving
  /\ ffb.initialized
  /\ ZeroCommand(hw.calls, ffb.constantEffectId)

\* C7: after every tick processed outside active driving with the device
\* Ready, smoothedLateral and crashImpulseTimer are 0.  (Stated as claimed;
\* the code resets them only together with the zero command.)
C7_NonGameplayResetsFilter ==
  [][ (TickProcessed(op') /\ op'.mode \notin ActiveDriving /\ ffb'.initialized)
        => (ffb'.smoothedLateral = 0 /\ ffb'.crashImpulseTimer = 0)
    ]_vars

\* C8: Update with a null snapshot changes no engine, watchdog, lifecycle,
\* telemetry or device state and makes no call.
C8_NullSnapshotNoEffect ==
  [][ (op'.name = "Update" /\ op'.car.ptr = 0)
        => /\ ffb' = ffb
           /\ tel' = tel
           /\ settings' = settings
           /\ Device(hw') = Device(hw)
           /\ hw'.calls = <<>>
           /\ ~locals'.ran
    ]_vars

\* a null tick while a force is commanded and time has passed since the last tick
C8_Witness ==
  /\ op.name = "Update"
  /\ op.car.ptr = 0
  /\ ffb.prevConstantLevel # 0
  /\ now # ffb.lastUpdateTick

\* C9: when the slew bypass is not active, a level that is sent differs from
\* the previously sent level by at most 2000, for every pair of int16_t
\* operands.
C9_SlewBounded ==
  (/\ shape.stage = "shaped"
   /\ ~(shape.crashImpulseTimer > 80 \/ shape.gearShiftTimer > 0)
   /\ shape.out.flush)
    => Abs(shape.out.level - shape.prevConstantLevel) <= 2000

\* a sent level for operands more than 32767 apart
C9_Witness ==
  /\ shape.stage = "shaped"
  /\ ~(shape.crashImpulseTimer > 80 \/ shape.gearShiftTimer > 0)
  /\ shape.out.flush
  /\ Abs(shape.level - shape.prevConstantLevel) > 32767

\* C10: on a gameplay tick whose shaped level is within 200 of the last sent
\* level, with the crash timer outside its active window, no update of the
\* effect is issued and prevConstantLevel keeps its value.
C10_DeadbandSuppresses ==
  [][ (/\ TickProcessed(op')
       /\ op'.mode \in ActiveDriving
       /\ locals'.ran
       /\ Abs(locals'.level - ffb.prevConstantLevel) <= 200
       /\ ffb'.crashImpulseTimer <= 80)
        => /\ CallsOf(hw'.calls, "SDL_UpdateHapticEffect") = {}
           /\ ffb'.prevConstantLevel = ffb.prevConstantLevel
    ]_vars

\* a gameplay tick that computed a level inside the deadband, not equal to
\* the last sent one
C10_Witness ==
  /\ TickProcessed(op)
  /\ locals.ran
  /\ ~locals.flushed
  /\ locals.level # ffb.prevConstantLevel
  /\ Abs(locals.level - ffb.prevConstantLevel) <= 200

----------------------------------------------------------------------------
(* C11..C20 *)

\* a step in which Update processed a gameplay tick with the device Ready
GameplayTick == ffb'.initialized /\ ffb'.updateCounter = ffb.updateCounter + 1

\* the speed a script's car has lost on tick n against five ticks earlier,
\* the slot Update reads from its history
WindowDelta(sc, n) == SpeedAt(sc.profile, n - 5) - SpeedAt(sc.profile, n)

\* the speed-window condition on tick n of a script
SpeedDrop(sc, n) ==
  n > 6 /\ WindowDelta(sc, n) > 300 /\ SpeedAt(sc.profile, n) > 1000

\* the contact bit rises on tick n of a script
FlagEdge(sc, n) == n \in sc.flagTicks /\ (n - 1) \notin sc.flagTicks

\* a crash trigger fires in this step: a condition holds on the tick and the
\* tick starts with the timer at 0
TriggerFires ==
  /\ ffb.crashImpulseTimer <= 0
  /\ SpeedDrop(scenario, scenario'.n) \/ FlagEdge(scenario, scenario'.n)

\* C11: on every processed gameplay tick with the device Ready the crash timer
\* goes down by exactly one if it is positive, stays within 0..90, and stays 0
\* unless a crash trigger fires.
C11_CrashTimerCountsDown ==
  [][ GameplayTick
        => /\ (ffb.crashImpulseTimer > 0
                 => ffb'.crashImpulseTimer = ffb.crashImpulseTimer - 1)
           /\ ffb'.crashImpulseTimer \in 0..90
           /\ (ffb.crashImpulseTimer = 0 /\ ~TriggerFires
                 => ffb'.crashImpulseTimer = 0)
    ]_vars

\* C12 as claimed: when a crash trigger fires on a tick, the timer holds 90
\* when that tick's Update returns.
C12_LatchedAtNinetyOnReturn ==
  [][ (GameplayTick /\ TriggerFires) => ffb'.crashImpulseTimer = 90 ]_vars

\* C12 amended: when a crash trigger fires on a tick, the timer is latched at
\* 90 for that tick's force stage, which counts it down: when the tick's Update
\* returns it holds 89 if a constant-force effect exists (the jolt was computed
\* with 90: full envelope) and 90 if none exists.
C12_LatchedAtNinetyForForceStage ==
  [][ (GameplayTick /\ TriggerFires)
        => IF ffb'.constantEffectId >= 0
           THEN /\ ffb'.crashImpulseTimer = 89
                /\ locals'.ran
                /\ locals'.jolt = ffb'.crashImpulseForce
           ELSE ffb'.crashImpulseTimer = 90
    ]_vars

\* the speed-window trigger has fired on a drop of 0.10 on a wheel with a
\* constant-force effect
C12_Witness ==
  /\ scenario.kind = "crash"
  /\ ffb.constantEffectId >= 0
  /\ ffb.crashImpulseTimer = 89
  /\ SpeedDrop(scenario, scenario.n)
  /\ WindowDelta(scenario, scenario.n) = 1000
  /\ Abs(ffb.crashImpulseForce) = 8400

\* C13: when a crash trigger fires, crashImpulseForce = direction * magnitude *
\* wall-impact gain with direction -1 for steeringAngle >= 0 and +1 otherwise,
\* magnitude clamp((windowDelta - 0.03) * 12, 0.8, 1.0) for the speed-window
\* trigger and 0.8 for the flag-edge trigger, and smoothedLateral is 0 at the
\* end of the tick.
C13_CrashForceLatched ==
  [][ (GameplayTick /\ TriggerFires)
        => LET n == scenario'.n
               direction == IF op'.car.steeringAngle >= 0 THEN -1 ELSE 1
               magnitude == IF SpeedDrop(scenario, n)
                            THEN Clamp((WindowDelta(scenario, n) - 300) * 12, 8000, 10000)
                            ELSE 8000
           IN /\ ffb'.crashImpulseForce
                   = direction * TruncDiv(magnitude * settings.FFBWallImpact, One)
              /\ ffb'.smoothedLateral = 0
    ]_vars

\* a drop of 0.10 while steering left with a wall-impact gain of 2.0 has
\* latched +1 * 0.84 * 2.0
C13_Witness ==
  /\ scenario.kind = "crash"
  /\ scenario.steer < 0
  /\ settings.FFBWallImpact = 2 * One
  /\ ffb.crashImpulseTimer >= 89
  /\ ffb.crashImpulseForce = 16800
  /\ ffb.smoothedLateral = 0

\* C14: on a gameplay tick that starts with the crash timer above 0 neither
\* trigger relatches the timer, changes crashImpulseForce or resets
\* smoothedLateral (it takes its filter step); the timer rises or the force
\* changes only on a tick that starts with the timer at 0.
C14_NoRelatchWhileRunning ==
  [][ GameplayTick
        => /\ (ffb.crashImpulseTimer > 0
                 => /\ ffb'.crashImpulseTimer <= ffb.crashImpulseTimer
                    /\ ffb'.crashImpulseForce = ffb.crashImpulseForce
                    /\ ffb'.smoothedLateral
                         = LateralEma(ffb.smoothedLateral, op'.car.lateralForce1,
                                      op'.car.lateralForce2)
                    /\ ffb'.smoothedLateral # 0)
           /\ ((ffb'.crashImpulseTimer > ffb.crashImpulseTimer
                  \/ ffb'.crashImpulseForce # ffb.crashImpulseForce)
                 => ffb.crashImpulseTimer = 0)
    ]_vars

\* a trigger condition held on a tick that started inside the jolt or the
\* cooldown
C14_Witness ==
  /\ scenario.kind = "crash"
  /\ scenario.n > 0
  /\ SpeedDrop(scenario, scenario.n) \/ FlagEdge(scenario, scenario.n)
  /\ ffb.crashImpulseTimer \in 1..88

\* the engine state as the static initializers leave it
FreshEngineState(f) ==
  /\ f.updateCounter = 0
  /\ f.smoothedLateral = 0
  /\ f.speedHistoryIdx = 0
  /\ f.crashImpulseTimer = 0
  /\ f.gearShiftTimer = 0
  /\ f.prevGear = 0
  /\ f.prevCollisionFlags = 0
  /\ f.prevConstantLevel = 0

\* C15: on a fresh engine state, the first gameplay tick whose snapshot reports
\* gear 3 and previous gear 2 (speed 0.6, lateral forces 10 and 8) adds a
\* nonzero gear kick to the total force.
C15_FirstTickGearKick ==
  [][ (/\ GameplayTick
       /\ TickProcessed(op')
       /\ FreshEngineState(ffb)
       /\ op'.car.curGear = 3
       /\ op'.car.prevGearState = 2
       /\ op'.car.speed = 6000
       /\ op'.car.lateralForce1 = 100000
       /\ op'.car.lateralForce2 = 80000
       /\ locals'.ran)
        => locals'.kick # 0
    ]_vars

\* a crash was latched in this step
CrashLatched == ffb.crashImpulseTimer <= 0 /\ ffb'.crashImpulseTimer >= 89

\* C16: on every gameplay tick with the device Ready, with or without a
\* constant-force effect and whether or not the level is sent, smoothedLateral
\* becomes a*c + (1-a)*s, c = lateralForce1 + lateralForce2, s its previous
\* value, a = 0.25 if |c| > |s| and 0.10 otherwise, unless a crash is latched
\* on the tick.
C16_DualRateEma ==
  [][ (GameplayTick /\ TickProcessed(op') /\ ~CrashLatched)
        => LET c == op'.car.lateralForce1 + op'.car.lateralForce2
               s == ffb.smoothedLateral
               a == IF Abs(c) > Abs(s) THEN 2500 ELSE 1000
           IN ffb'.smoothedLateral = TruncDiv(a * c, One) + TruncDiv((One - a) * s, One)
    ]_vars

\* one tick from s = 0 with c = 18 gave 4.5 on a Ready device that has no
\* constant-force effect
C16_Witness ==
  /\ TickProcessed(op)
  /\ ffb.initialized
  /\ ffb.constantEffectId < 0
  /\ ffb.updateCounter = 1
  /\ op.car.lateralForce1 + op.car.lateralForce2 = 180000
  /\ ffb.smoothedLateral = 45000

\* character codes of one letter in either case, or the same character
SameIgnoringCase(a, b) ==
  \/ a = b
  \/ (a \in 65..90 /\ b = a + 32)
  \/ (b \in 65..90 /\ a = b + 32)

\* p occurs in s when letter case is ignored
OccursIgnoringCase(p, s) ==
  \E k \in 0..(Len(s) - Len(p)) : \A i \in 1..Len(p) : SameIgnoringCase(s[k + i], p[i])

\* entry i of the table matches the name
ProfileMatches(i, name) == OccursIgnoringCase(KnownWheels[i].nameSubstring, name)

\* "Fanatec DD1"
FanatecDD1 == <<70,97,110,97,116,101,99,32,68,68,49>>

\* the answer is that of the first matching entry in table order, 0 without a
\* match or a name
FirstMatchAnswer(name, torque) ==
  IF name = NullName THEN torque = 0
  ELSE /\ \A i \in 1..Len(KnownWheels) :
            (ProfileMatches(i, name) /\ \A j \in 1..(i - 1) : ~ProfileMatches(j, name))
              => torque = KnownWheels[i].maxTorqueNm
       /\ (\A i \in 1..Len(KnownWheels) : ~ProfileMatches(i, name)) => torque = 0

\* C17 as claimed: DetectWheelTorque returns the torque of the first entry in
\* table order whose fragment occurs in the name, letter case ignored, 0.0
\* without a match or for a null name, and every name containing "Fanatec DD1"
\* in any letter case resolves to 20.0.
C17_AnyNameWithDD1 ==
  (scenario.kind = "detect" /\ scenario.stage = "answered")
    => /\ FirstMatchAnswer(scenario.name, scenario.torque)
       /\ (scenario.name # NullName /\ OccursIgnoringCase(FanatecDD1, scenario.name))
            => scenario.torque = 200000

\* C17 amended: DetectWheelTorque returns the torque of the first entry in
\* table order whose fragment occurs in the name, letter case ignored, 0.0
\* without a match or for a null name; a name containing "Fanatec DD1" in any
\* letter case, and no fragment of the eight entries before it, resolves to 20.0.
C17_FirstMatchInTableOrder ==
  (scenario.kind = "detect" /\ scenario.stage = "answered")
    => /\ FirstMatchAnswer(scenario.name, scenario.torque)
       /\ (/\ scenario.name # NullName
           /\ OccursIgnoringCase(FanatecDD1, scenario.name)
           /\ \A j \in 1..8 : ~ProfileMatches(j, scenario.name))
            => scenario.torque = 200000

\* "USB FANATEC DD1 WHEEL BASE" was resolved to 20.0
C17_Witness ==
  /\ scenario.kind = "detect"
  /\ scenario.stage = "answered"
  /\ scenario.name = ToUpper(UsbPrefix \o FanatecDD1 \o BaseSuffix)
  /\ scenario.torque = 200000

\* C18: after a successful initialization wheelTorqueScale is 2.2 / deviceNm
\* (here: the quotient cut to four decimals) when deviceNm > 2.2 and 1.0
\* otherwise, so 0 < wheelTorqueScale <= 1, where deviceNm is the manual
\* override when that is greater than 0, whatever the profile table says of the
\* device, and the resolver's result for the device name otherwise.
C18_TorqueScale ==
  ffb.initialized
    => LET deviceNm == IF settings.FFBWheelTorqueNm > 0 THEN settings.FFBWheelTorqueNm
                       ELSE DetectWheelTorque(ffb.deviceName)
           scale == ffb.wheelTorqueScale
       IN /\ deviceNm > 22000
               => /\ scale * deviceNm <= 22000 * One
                  /\ (scale + 1) * deviceNm > 22000 * One
          /\ deviceNm <= 22000 => scale = One
          /\ 0 < scale /\ scale <= One

\* a direct-drive wheel the table rates 20.0 was initialized under an override
\* of 5.0: the scale is 0.44, not 0.11
C18_Witness ==
  /\ ffb.initialized
  /\ ffb.deviceName = DirectDriveWheel.name
  /\ DetectWheelTorque(ffb.deviceName) = 200000
  /\ settings.FFBWheelTorqueNm = 50000
  /\ ffb.wheelTorqueScale = 4400

\* id + 1 modulo 2^32, on the two halves of a DWORD
NextPacketId(id) ==
  IF id = <<65535, 65535>> THEN <<0, 0>>
  ELSE IF id[2] = 65535 THEN <<id[1] + 1, 0>>
  ELSE <<id[1], id[2] + 1>>

\* this step left the record holding the snapshot of its Update under the id
\* that follows the last one published
WroteOnce ==
  /\ tel'.pData
  /\ tel'.data.version = TELEMETRY_VERSION
  /\ tel'.data.packetId = NextPacketId(scenario.lastPublished)
  /\ tel'.packetId = tel'.data.packetId
  /\ tel'.data.speed = op'.car.speed
  /\ tel'.data.steeringAngle = op'.car.steeringAngle
  /\ tel'.data.gear = op'.car.curGear
  /\ tel'.data.stateFlags = op'.car.stateFlags
  /\ tel'.data.gameMode = (IF op'.mode = "NULL" THEN "0" ELSE op'.mode)
  /\ tel'.data.isInGameplay = (IF IsInGameplay(op'.mode) THEN 1 ELSE 0)

TelemetryTick ==
  /\ op'.name = "Update"
  /\ op'.car.ptr # 0
  /\ settings.TelemetryEnabled

\* C19 as stated: with telemetry export enabled, every Update with a non-null
\* snapshot writes the record exactly once, whether or not FFB is enabled, the
\* device initialized or the game in gameplay, under the id one greater
\* (modulo 2^32) than the previously published one.
C19_EveryUpdateWrites == [][TelemetryTick => WroteOnce]_vars

\* C19, amended: with telemetry export enabled and the shared-memory segment
\* mapped (by this Update or an earlier one), every Update with a non-null
\* snapshot writes the record exactly once, whether or not FFB is enabled, the
\* device initialized or the game in gameplay, under the id one greater
\* (modulo 2^32) than the previously published one, whatever the segment
\* holds; while the segment cannot be mapped Update writes nothing and the id
\* does not advance.
C19_EveryMappedUpdateWrites ==
  [][TelemetryTick => IF tel'.pData THEN WroteOnce
                      ELSE tel'.packetId = tel.packetId /\ tel'.data = NoRecord]_vars

\* the id wrapped from 2^32 - 1 to 0 with FFB disabled
C19_Witness ==
  /\ op.name = "Update"
  /\ op.car.ptr # 0
  /\ settings.TelemetryEnabled
  /\ ~settings.DirectInputFFB
  /\ tel.pData
  /\ tel.data.packetId = DwZero
  /\ scenario.lastPublished = DwZero
  /\ scenario.n >= 2

\* C20: whenever the device manager is Ready exactly one haptic effect exists,
\* the constant-force effect, created and running, and no spring, damper, sine
\* or friction effect exists.
C20_ReadyHasOneConstantEffect ==
  ffb.initialized
    => /\ ffb.constantEffectId >= 0
       /\ hw.effects = {ffb.constantEffectId}
       /\ hw.running = {ffb.constantEffectId}
       /\ ffb.springEffectId = -1
       /\ ffb.damperEffectId = -1
       /\ ffb.sineEffectId = -1
       /\ ffb.frictionEffectId = -1

----------------------------------------------------------------------------
(* C21..C30 *)

\* the log lines of Update that report no failure
RoutineLines ==
  {"spdlog::info FFB: CRASH impulse!",
   "spdlog::info FFB: CRASH impulse from flags8 0x1000!",
   "spdlog::info FFB DIAG"}

\* positions of the updates in a call log that the device did not take: the
\* device is open and is left holding another level than the call's
RejectedUpdates(cs, deviceLevel) ==
  {i \in CallsOf(cs, "SDL_UpdateHapticEffect") : cs[i].live /\ cs[i].level # deviceLevel}

\* a line other than the routine ones follows position i
FailureLoggedAfter(cs, i) ==
  \E j \in DOMAIN cs : j > i /\ cs[j].fn \notin (HapticFns \cup RoutineLines)

\* C21: when the hardware rejects a constant-force update issued by Update, the
\* failure is logged, the update is not retried within that tick, and the tick
\* still completes (a gameplay tick retains gear, flags and speed).
C21_RejectedUpdateLogged ==
  [][op'.name = "Update"
       => \A i \in RejectedUpdates(hw'.calls, hw'.level) :
            /\ FailureLoggedAfter(hw'.calls, i)
            /\ Cardinality(CallsOf(hw'.calls, "SDL_UpdateHapticEffect")) = 1
            /\ IsInGameplay(op'.mode)
                 => /\ ffb'.prevGear = op'.car.curGear
                    /\ ffb'.prevCollisionFlags = op'.car.stateFlags
                    /\ ffb'.prevSpeed = op'.car.speed]_vars

\* C22: when CheckWatchdog and Update run on different threads their accesses
\* to the shared statics are mutually exclusive (never both between their
\* first and last access), so that whenever neither is running
\* prevConstantLevel is the level most recently sent to the hardware.
C22_WatchdogUpdateExclusive ==
  /\ ~(scenario.upd # "idle" /\ scenario.wd # "idle")
  /\ (scenario.upd = "idle" /\ scenario.wd = "idle") => ffb.prevConstantLevel = hw.level

\* C23: the conversion of totalForce to the 16-bit level is a soft saturation:
\* the level does not decrease when totalForce grows, its magnitude never
\* exceeds 32767 (it is never -32768), and a totalForce of 3.0 maps to a level
\* strictly below 32767 and strictly above the level of a totalForce of 1.0.
C23_SoftSaturation ==
  shape.stage = "levels"
    => /\ shape.lowerLevel <= shape.upperLevel
       /\ shape.upperLevel <= 32767 /\ shape.lowerLevel >= -32767
       /\ shape.upper = 3 * One => shape.upperLevel < 32767
       /\ (shape.lower = One /\ shape.upper = 3 * One) => shape.lowerLevel < shape.upperLevel

\* 1.0 and 3.0 were converted: 24955 and 32606
C23_Witness ==
  /\ shape.stage = "levels"
  /\ shape.lower = One
  /\ shape.upper = 3 * One
  /\ shape.lowerLevel = 24955
  /\ shape.upperLevel = 32606

\* the speed-window stage latched a crash in this step: it wrote its log line
SpeedWindowFired == CallsOf(hw'.calls, "spdlog::info FFB: CRASH impulse!") # {}

\* C24: the speed-window trigger fires on a gameplay tick if and only if
\* crashImpulseTimer <= 0, at least 6 earlier ticks have been recorded, the
\* current speed exceeds 0.1, and the speed recorded exactly 6 processed ticks
\* before the current tick minus the current speed exceeds 0.03.
C24_SpeedWindowSixTicks ==
  [][GameplayTick
       => LET n == scenario'.n
          IN SpeedWindowFired
               <=> /\ ffb.crashImpulseTimer <= 0
                   /\ n - 1 >= 6
                   /\ SpeedAt(scenario.profile, n) > 1000
                   /\ SpeedAt(scenario.profile, n - 6) - SpeedAt(scenario.profile, n) > 300]_vars

\* the crash timer as the force stage of this step's tick found it: the value
\* the tick started with, or 90 if a trigger latched it on this tick
StageTimer ==
  IF ffb.crashImpulseTimer > 0 THEN ffb.crashImpulseTimer
  ELSE IF ffb'.crashImpulseTimer > 0 THEN ffb'.crashImpulseTimer + 1
  ELSE 0

\* a step in which Update ran the force stage of a gameplay tick
ForceTick == GameplayTick /\ locals'.ran

\* C25: after a crash is latched the jolt is applied on exactly 10 consecutive
\* ticks starting with the trigger tick (timer 90 down to 81): with envelope
\* 1.0 on exactly the first 5 of them (90..86) and with a decreasing envelope
\* strictly below 1.0 on the remaining 5 (85..81); on the following 80 ticks
\* (timer 80 down to 1) no jolt force is added.
C25_JoltEnvelope ==
  [][ForceTick
       => /\ StageTimer \in 86..90 => locals'.joltAdded /\ locals'.envelope = One
          /\ StageTimer \in 81..85
               => /\ locals'.joltAdded
                  /\ locals'.envelope > 0
                  /\ locals'.envelope < One
                  /\ locals.ran => locals'.envelope < locals.envelope
          /\ StageTimer \in 0..80 => ~locals'.joltAdded /\ locals'.jolt = 0]_vars

\* C26: on every gameplay tick that computes totalForce the steering
\* contribution is left out exactly when a crash jolt contribution is added
\* (timer > 80 when the force stage starts), and is added on every other tick,
\* the 80 cooldown ticks included.
C26_SteeringYieldsToJolt ==
  [][ForceTick
       => /\ locals'.joltAdded <=> StageTimer > 80
          /\ locals'.steeringAdded <=> ~locals'.joltAdded
          /\ locals'.joltAdded
               => /\ locals'.steeringWeight = 0
                  /\ Abs(locals'.totalForce) =
                       Abs(locals'.jolt + locals'.kick + locals'.rumble
                             + locals'.slipRumble + locals'.revForce)
          /\ ~locals'.joltAdded
               => /\ locals'.jolt = 0
                  /\ Abs(locals'.totalForce) =
                       Abs(locals'.steeringWeight + locals'.kick + locals'.rumble
                             + locals'.slipRumble + locals'.revForce)]_vars

\* a jolt tick left the steering weight out although the lateral filter had
\* risen again since the latch
C26_Witness ==
  /\ scenario.kind = "crash"
  /\ locals.ran
  /\ locals.joltAdded
  /\ locals.jolt # 0
  /\ ~locals.steeringAdded
  /\ ffb.smoothedLateral > 5 * One
  /\ ffb.crashImpulseTimer = 85

\* the gear changed on tick n of a script from a nonzero gear
ShiftOn(sc, n) ==
  n > 1 /\ GearAt(sc.gears, n) # GearAt(sc.gears, n - 1) /\ GearAt(sc.gears, n - 1) # 0

\* a kick is latched in this step: a shift on a tick that starts with the
\* timer at 0
KickLatches == ShiftOn(scenario, scenario'.n) /\ ffb.gearShiftTimer = 0

\* the gear timer the kick of this step's tick is computed with
KickTimer == IF KickLatches THEN 6 ELSE ffb.gearShiftTimer

LatchTick(n, t) == n - (6 - t)

\* C28: the sign of a gear kick is fixed by the shift that latched it: when
\* the gear stays constant after the shift and the gear-shift gain is
\* positive, the contribution is positive on every one of the 6 ticks after an
\* upshift and negative on every one of the 6 ticks after a downshift.
C28_KickSignFollowsShift ==
  [][(ForceTick /\ KickTimer > 0 /\ settings.FFBGearShift > 0)
       => LET n == scenario'.n
              m == LatchTick(n, KickTimer)
          IN (\A k \in m..n : GearAt(scenario.gears, k) = GearAt(scenario.gears, m))
               => /\ GearAt(scenario.gears, m) > GearAt(scenario.gears, m - 1)
                       => locals'.kick > 0
                  /\ GearAt(scenario.gears, m) < GearAt(scenario.gears, m - 1)
                       => locals'.kick < 0]_vars

\* C29: on every gameplay tick on which a crash-jolt or a gear-kick
\* contribution is included in totalForce the slew-rate limiter is bypassed:
\* the level passed to the deadband stage is the level computed from
\* totalForce, however far it is from prevConstantLevel.
C29_JoltAndKickBypassSlew ==
  [][(ForceTick /\ (locals'.joltAdded \/ locals'.kickAdded))
       => locals'.level = locals'.target]_vars

\* C30: on every gameplay tick on which a crash-jolt contribution is added to
\* totalForce (all 10 ticks of the active window) a hardware update is issued,
\* however close the level is to prevConstantLevel.
C30_JoltAlwaysFlushed ==
  [][(ForceTick /\ locals'.joltAdded)
       => /\ locals'.flushed
          /\ \E i \in CallsOf(hw'.calls, "SDL_UpdateHapticEffect") :
               hw'.calls[i].level = locals'.level]_vars

----------------------------------------------------------------------------
(* C31..C40 *)

\* positions in a call log of updates of the constant-force effect id
ConstantUpdates(cs, id) == {i \in CallsOf(cs, "SDL_UpdateHapticEffect") : cs[i].id = id}

\* the level argument of the last update of the effect in a call log
LastIssued(cs, id) ==
  LET last == CHOOSE i \in ConstantUpdates(cs, id) : \A j \in ConstantUpdates(cs, id) : j <= i
  IN cs[last].level

\* C31: prevConstantLevel is 0 until a constant-force update is issued; a step
\* that issues such updates leaves it at the level argument of the last one,
\* accepted by the hardware or not, and a step that issues none leaves it
\* unchanged. Hence it always is the level of the most recent update issued.
C31_PrevLevelIsLastIssued ==
  /\ (op.name = "start" => ffb.prevConstantLevel = 0)
  /\ [][IF ConstantUpdates(hw'.calls, ffb'.constantEffectId) # {}
        THEN ffb'.prevConstantLevel = LastIssued(hw'.calls, ffb'.constantEffectId)
        ELSE /\ ffb'.prevConstantLevel = ffb.prevConstantLevel
             /\ CallsOf(hw'.calls, "SDL_UpdateHapticEffect") = {}]_vars

\* a rejected nonzero update: prevConstantLevel holds the level the hardware
\* did not take
C31_Witness ==
  /\ op.name = "Update"
  /\ ConstantUpdates(hw.calls, ffb.constantEffectId) # {}
  /\ ffb.prevConstantLevel = LastIssued(hw.calls, ffb.constantEffectId)
  /\ ffb.prevConstantLevel # 0
  /\ hw.level # ffb.prevConstantLevel

\* off-road contact at a speed above 0.05
RumbleOn(car) == (\E i \in 1..4 : car.surf[i] > 1) /\ car.speed > 500

\* the three oscillators' trigger conditions on the tick just processed
RumbleCondition == RumbleOn(op'.car)

SlipCondition == Abs(ffb'.smoothedLateral) > 120000 /\ op'.car.speed > 1000

EngineCondition == op'.car.speed < 1500

\* an oscillator's phase after a tick, given its own condition and increment
PhaseFollows(before, after, condition, increment) ==
  /\ after >= 0 /\ after < TwoPi
  /\ ~condition => after = 0
  /\ condition => \E k \in {0, 1} : after + k * TwoPi = before + increment

C33_RumbleSampleNonzero ==
  [][(/\ ForceTick
      /\ op.name = "Update" /\ locals.ran
      /\ RumbleOn(op.car) /\ RumbleOn(op'.car)
      /\ settings.FFBRumbleStrip > 0)
       => \/ locals.rumbleWave # 0 /\ locals.rumble # 0
          \/ locals'.rumbleWave # 0 /\ locals'.rumble # 0]_vars

\* the hardware operations on an opened device, and those on one effect
DeviceOperations ==
  {"SDL_UpdateHapticEffect", "SDL_RunHapticEffect", "SDL_StopHapticEffects",
   "SDL_DestroyHapticEffect", "SDL_CloseHaptic"}

EffectOperations ==
  {"SDL_UpdateHapticEffect", "SDL_RunHapticEffect", "SDL_DestroyHapticEffect"}

\* C34: every effect update, run, stop, destroy and device close issued by a
\* step is issued with a non-null handle of a device that is open at that
\* moment, and every operation on one effect names an id other than -1.
C34_NoOperationOnDeadHandle ==
  \A i \in DOMAIN hw.calls :
    /\ hw.calls[i].fn \in DeviceOperations
          => hw.calls[i].dev # NullDevice /\ hw.calls[i].live
    /\ hw.calls[i].fn \in EffectOperations => hw.calls[i].id >= 0

\* a Shutdown that stopped, destroyed and closed, after which the handle is
\* null and the device closed
C34_Witness ==
  /\ op.name = "Shutdown"
  /\ CallsOf(hw.calls, "SDL_DestroyHapticEffect") # {}
  /\ CallsOf(hw.calls, "SDL_CloseHaptic") # {}
  /\ ffb.hapticDevice = NullDevice
  /\ ~hw.open

\* C35: whenever the limiter changes the computed level, the result is the
\* previous level plus 2000 if the computed level lies above it and minus 2000
\* if it lies below, as an int16_t that has not wrapped, for every pair of
\* int16_t operands.
C35_SlewStepTowardTarget ==
  (shape.stage = "shaped" /\ shape.out.level # shape.level)
    => /\ shape.level > shape.prevConstantLevel
            => shape.out.level = shape.prevConstantLevel + 2000
       /\ shape.level < shape.prevConstantLevel
            => shape.out.level = shape.prevConstantLevel - 2000

\* C36: on a gameplay tick that runs the force stage, a shaped level more
\* than 200 away from prevConstantLevel, however far, is sent in an update of
\* the constant-force effect on that tick and becomes prevConstantLevel.
C36_LargeStepIsSent ==
  [][(ForceTick /\ Abs(locals'.level - ffb.prevConstantLevel) > 200)
       => /\ \E i \in ConstantUpdates(hw'.calls, ffb'.constantEffectId) :
               hw'.calls[i].level = locals'.level
          /\ ffb'.prevConstantLevel = locals'.level]_vars

\* the engine state a tick outside active driving is claimed to retain
Retained(f) ==
  <<f.speedHistory, f.speedHistoryIdx, f.gearShiftTimer, f.crashImpulseForce,
    f.prevGear, f.prevCollisionFlags, f.prevSpeed,
    f.rumblePhase, f.slipPhase, f.enginePhase>>

\* C37: a tick processed with a snapshot while the game is outside active
\* driving leaves the speed history, its write index, gearShiftTimer,
\* crashImpulseForce, prevGear, prevCollisionFlags, prevSpeed and the three
\* phases as they were, so the next gameplay tick compares against them.
C37_GapRetainsEngineState ==
  [][(TickProcessed(op') /\ op'.mode \notin ActiveDriving)
       => Retained(ffb') = Retained(ffb)]_vars

\* a tick outside active driving on an engine with a contact bit, a gear, a
\* running gear kick, history and a phase to retain, which zeroes the force
C37_Witness ==
  /\ TickProcessed(op) /\ op.mode \notin ActiveDriving
  /\ CallsOf(hw.calls, "SDL_UpdateHapticEffect") # {}
  /\ CollisionBit(ffb.prevCollisionFlags)
  /\ ffb.gearShiftTimer > 0
  /\ ffb.speedHistoryIdx > 0
  /\ ffb.rumblePhase > 0

\* the flag-edge stage latched a crash in this step: it wrote its log line
FlagEdgeFired ==
  CallsOf(hw'.calls, "spdlog::info FFB: CRASH impulse from flags8 0x1000!") # {}

\* C38: when the speed-window condition and a rising edge of the contact bit
\* hold on the same gameplay tick and the tick starts with the crash timer at
\* 0, one crash is latched: the speed-window stage reports it, the flag-edge
\* stage does not, and crashImpulseForce has the speed-window magnitude
\* clamp((windowDelta - 0.03) * 12, 0.8, 1.0).
C38_OneCrashPerTick ==
  [][(/\ GameplayTick
      /\ ffb.crashImpulseTimer <= 0
      /\ SpeedDrop(scenario, scenario'.n)
      /\ FlagEdge(scenario, scenario'.n))
       => LET n == scenario'.n
              direction == IF op'.car.steeringAngle >= 0 THEN -1 ELSE 1
              magnitude == Clamp((WindowDelta(scenario, n) - 300) * 12, 8000, 10000)
          IN /\ Cardinality(CallsOf(hw'.calls, "spdlog::info FFB: CRASH impulse!")) = 1
             /\ ~FlagEdgeFired
             /\ ffb'.crashImpulseForce
                  = direction * TruncDiv(magnitude * settings.FFBWallImpact, One)]_vars

\* both conditions on tick 8, where 0.12 of speed is lost: the latched
\* magnitude is 1.0, not the flag-edge trigger's 0.8
C38_Witness ==
  /\ scenario.kind = "crash"
  /\ scenario.n = 8
  /\ SpeedDrop(scenario, 8) /\ FlagEdge(scenario, 8)
  /\ WindowDelta(scenario, 8) = 1200
  /\ ffb.crashImpulseTimer >= 89
  /\ Abs(ffb.crashImpulseForce) = settings.FFBWallImpact
  /\ CallsOf(hw.calls, "spdlog::info FFB: CRASH impulse!") # {}

\* C39: the flag-edge trigger latches a crash only on a gameplay tick on
\* which the contact bit is set, was clear on the gameplay tick before, and
\* which starts with the crash timer at 0; no crash is latched on any other
\* tick except by the speed-window trigger. A rising edge during a running
\* timer is therefore lost: with the bit still set when the timer reaches 0,
\* nothing is latched.
C39_FlagEdgeConsumed ==
  [][GameplayTick
       => /\ FlagEdgeFired
               => /\ FlagEdge(scenario, scenario'.n)
                  /\ CollisionBit(op'.car.stateFlags)
                  /\ ffb.crashImpulseTimer <= 0
          /\ (ffb'.crashImpulseTimer > ffb.crashImpulseTimer \/ ffb'.crashImpulseForce # ffb.crashImpulseForce)
               => SpeedWindowFired \/ FlagEdgeFired]_vars

\* the bit rose on tick 12 of a jolt latched by a speed drop and is still set
\* on a tick that starts and ends with the timer at 0
C39_Witness ==
  /\ scenario.kind = "crash"
  /\ scenario.flagTicks = 12..MaxCrashTicks
  /\ scenario.n > 97
  /\ CollisionBit(op.car.stateFlags) /\ CollisionBit(ffb.prevCollisionFlags)
  /\ ffb.crashImpulseTimer = 0
  /\ ffb.crashImpulseForce # 0
  /\ op.name = "Update" /\ locals.ran

\* the call of this step reaches the comparison of the gears
ReachesGearComparison ==
  /\ scenario.cfg.DIShifterGearMode = "hpattern"
  /\ scenario'.hpattern.targetGear # 0
  /\ scenario'.inGame
  /\ op'.car.ptr # 0

\* what C40 states apart from the fate of the cooldown on the next call
HPatternEdgesSafe ==
  /\ ~({"GearUp", "GearDown"} \subseteq scenario'.synthetic)
  /\ scenario'.synthetic \subseteq {"GearUp", "GearDown"}
  /\ (\/ scenario'.hpattern.targetGear = 0
      \/ ~scenario'.inGame
      \/ op'.car.ptr # 0 /\ scenario'.hpattern.targetGear = op'.car.curGear)
       => scenario'.synthetic = {}
  /\ scenario'.synthetic # {} => scenario'.hpattern.shiftCooldown
  /\ scenario.synthetic # {} => scenario'.synthetic = {}

\* C40 as claimed: in every call of BuildSwitchOnMask at most one synthetic
\* gear edge is added, none when the target gear is neutral, equals the car's
\* gear or the game is not in gameplay, none in the call after one that added
\* an edge, and that next call clears the cooldown the emission set.
C40_CooldownClearedByNextCall ==
  [][op'.name = "SwitchOn"
       => /\ HPatternEdgesSafe
          /\ scenario.synthetic # {} => ~scenario'.hpattern.shiftCooldown]_vars

\* C40 amended: the same, except that the next call clears the cooldown only
\* if it reaches the comparison of the gears, and leaves it set otherwise.
C40_CooldownClearedByNextComparison ==
  [][op'.name = "SwitchOn"
       => /\ HPatternEdgesSafe
          /\ scenario.synthetic # {}
               => (scenario'.hpattern.shiftCooldown <=> ~ReachesGearComparison)]_vars

\* the call after an emission, with the lever in neutral: nothing is added
\* and the cooldown is still set
C40_Witness ==
  /\ op.name = "SwitchOn"
  /\ scenario.kind = "hpattern"
  /\ scenario.hpattern.targetGear = 0
  /\ scenario.hpattern.shiftCooldown
  /\ scenario.synthetic = {}
  /\ scenario.inGame

====
